---- MODULE Spec2Model ----
(***************************************************************************)
(* Solana-Agent-Wallet: the signing authority (AgentWallet) with its       *)
(* spend-limit policy and durable spend ledger, and the decision loop      *)
(* (BaseAgent) with its timer, its lifecycle calls and its in-flight       *)
(* cycles, with the events it emits and the audit lines it writes; the     *)
(* key store (KeyManager) and the registry of wallets (WalletRegistry);    *)
(* the two execution adapters (JupiterAdapter, SimulatedDex); the trading   *)
(* agent's act step (TradingAgent) and the price oracle it reads            *)
(* (createPriceOracle over PythPriceOracle and MockPriceOracle).            *)
(*                                                                         *)
(* Amounts are whole numbers of one fixed unit of SOL. The source adds     *)
(* IEEE doubles; the model keeps what the checks rely on (addition of      *)
(* non-negative amounts is monotone, comparison is exact) and not the      *)
(* rounding of decimal fractions.                                          *)
(***************************************************************************)
EXTENDS Integers, Sequences, FiniteSets, TLC

\* ------------------------------------------------------------------ bounds

MaxAmount == 2        \* amounts offered to sendSOL: 1..MaxAmount
MaxDay == 2           \* calendar days the clock runs through: 1..MaxDay
MaxCalls == 3         \* wallet calls in one behaviour
PerTxLimit == 1       \* the non-zero MAX_SPEND_SOL_PER_TX that Init offers
DailyCap == 3         \* the non-zero MAX_DAILY_SPEND_SOL that Init offers

MaxCyclesCfg == 2     \* the finite maxCycles that Init offers: 1..MaxCyclesCfg
MaxCount == 3         \* cycles started in one behaviour
MaxStray == 2         \* pending timers that no handle refers to any more
MaxInFlight == 2      \* runCycle activations suspended at an await

MaxPeerCalls == 1     \* sendSOL calls of the second wallet instance

MaxSeeds == 2         \* keypairs generated in one behaviour
MaxKeyOps == 4        \* key-store and registry calls in one behaviour
MaxIv == 1            \* values the random nonce of storeKey takes: 1..MaxIv

MaxTrades == 2        \* adapter calls in one behaviour

MaxPrice == 2         \* prices, in the unit the mock oracle rounds to
MaxTime == 3          \* Date.now() runs through 0..MaxTime
StaleLimit == 1       \* the positive ORACLE_MAX_STALENESS_MS that Init offers
MaxQuotes == 3        \* getPrice calls in one behaviour

Days == 1..MaxDay
Amounts == 1..MaxAmount
\* sendSPL and requestAirdrop take an amount that no check reads: one value.
OtherAmounts == {MaxAmount}

\* ------------------------------------------------------------------- state

VARIABLES
    \* AgentWallet
    maxSpendPerTx,    \* this.maxSpendPerTx (0 = unlimited)
    maxDailySpend,    \* this.maxDailySpend (0 = unlimited)
    today,            \* the wall clock's calendar day (getTodayKey)
    spendLedger,      \* this.spendLedger: day -> cumulative spend, 0 = no entry
    ledgerFile,       \* <agentId>.spend.json: whether it exists, the form
                      \* of its bytes and the day entries in it
    txHistory,        \* this.txHistory
    wpc,              \* where the wallet call in flight is suspended
    callOp,           \* the operation of the current (or last) call
    callAmount,       \* its amount
    callResult,       \* "none" | "pending" | "ok" | "policy_error" | "error"
    callNet,          \* network requests the current (or last) call has made
    callChecked,      \* the call evaluated both spend-limit checks and passed
    callSubmitted,    \* the call handed a signed transaction to the network
    callSubmits,      \* how many times it did
    attempts,         \* getSOLBalance: its local variable attempts
    nCalls,           \* calls made so far
    confirmedSum,     \* day -> amounts of the transfers confirmed on that day
    \* BaseAgent
    state,            \* this.state
    cycleCount,       \* this.cycleCount
    maxCycles,        \* config.maxCycles as given (0 = not given)
    minBalanceSet,    \* MIN_BALANCE_SOL parses to a number > 0
    hasErrorListener, \* a consumer subscribed to 'error'
    timerArmed,       \* the timeout this.cycleTimer refers to is still pending
    strayTimers,      \* pending timeouts whose handle was overwritten
    inflight,         \* await point -> runCycle activations suspended there
    completed,        \* cycles that ran to cycle_end or to the error event
    stopCalled,       \* stop() was called from outside the loop
    startThrew,       \* the last start() threw
    lastStep,         \* the handler that ran last, and how it went
    lastEvents,       \* the events it emitted, in order
    lastLog,          \* the audit lines it appended to the event log
    pausedBy,         \* what paused the loop last, until start/resume/stop
    \* a second AgentWallet instance
    peerId,           \* its agentId
    peerLive,         \* it has been constructed
    peerLedger,       \* its this.spendLedger
    otherFile,        \* the ledger file of the other agentId
    peerConfirmed,    \* day -> amounts of its transfers confirmed that day
    peerCalls,        \* its sendSOL calls so far
    \* KeyManager and WalletRegistry
    keyFile,          \* agentId -> the file <agentId>.key
    metaFile,         \* agentId -> the file <agentId>.meta.json
    kmSecret,         \* KeyManager -> the secret it was constructed with
    wallets,          \* registry -> this.wallets, in insertion order
    nextSeed,         \* keypairs generated so far
    nextInst,         \* AgentWallet instances constructed so far
    keyOps,           \* key-store and registry calls so far
    lastKey,          \* the last such call and what it returned
    snap,             \* the snapshotBalances call in flight (or the last)
    stored,           \* agentId -> what the last storeKey for it wrote
    firstWallet,      \* agentId -> public key of the first wallet returned
                      \* for it since the last deleteKey
    firstInst,        \* registry, agentId -> the first instance constructed
    \* the caller of getTransactionHistory
    handed,           \* the array it was given
    \* JupiterAdapter and SimulatedDex
    jup,              \* the JupiterAdapter's counters
    sim,              \* the SimulatedDex's counters
    dpc,              \* where the adapter call in flight is suspended
    dex,              \* the adapter call in flight (or the last one)
    dexCalls,         \* adapter calls so far
    \* the wallet's ledger object, the disk and the process
    ledgerShape,      \* what kind of object this.spendLedger is
    diskOk,           \* the file system accepts writes to the ledger file
    lossy,            \* a ledger write failed or the process was killed
    \* TradingAgent
    dexKind,          \* DEX_ADAPTER: which adapter createDex returned
    position,         \* this.position
    entryPrice,       \* this.entryPrice
    act,              \* the act() call in flight (or the last one)
    \* the price oracle of createPriceOracle
    now,              \* Date.now()
    oracleSource,     \* ORACLE_SOURCE
    maxStale,         \* ORACLE_MAX_STALENESS_MS as parsed
    pyth,             \* the PythPriceOracle's lastPrice and lastTs
    mockPrice,        \* the MockPriceOracle's currentPrice
    quote,            \* the last getPrice call and what it returned
    oracleCalls       \* getPrice calls so far

walletVars == <<maxSpendPerTx, maxDailySpend, today, spendLedger, ledgerFile,
                txHistory, wpc, callOp, callAmount, callResult, callNet,
                callChecked, callSubmitted, callSubmits, attempts, nCalls,
                confirmedSum>>

agentVars == <<state, cycleCount, maxCycles, minBalanceSet, hasErrorListener,
               timerArmed, strayTimers, inflight, completed, stopCalled,
               startThrew, lastStep, lastEvents, lastLog, pausedBy>>

peerVars == <<peerId, peerLive, peerLedger, otherFile, peerConfirmed, peerCalls>>

keyVars == <<keyFile, metaFile, kmSecret, wallets, nextSeed, nextInst, keyOps,
             lastKey, snap, stored, firstWallet, firstInst>>

histVars == <<handed>>

dexVars == <<jup, sim, dpc, dex, dexCalls>>

diskVars == <<ledgerShape, diskOk, lossy>>

tradeVars == <<dexKind, position, entryPrice, act>>

oracleVars == <<now, oracleSource, maxStale, pyth, mockPrice, quote,
                oracleCalls>>

vars == <<walletVars, agentVars, peerVars, keyVars, histVars, dexVars,
          diskVars, tradeVars, oracleVars>>

EmptyLedger == [d \in Days |-> 0]

\* What the bytes of a ledger file may be: a JSON object of day entries; not
\* JSON at all (a truncated write); JSON that is no object (a number, a
\* string, null); a JSON array; bytes that the process cannot read.
FileForms == {"ledger", "unparsable", "scalar", "array", "unreadable"}

\* No ledger file.
NoLedgerFile == [exists |-> FALSE, form |-> "ledger", map |-> EmptyLedger]

\* No array has been handed out by getTransactionHistory.
NoHanded == [given |-> FALSE, list |-> <<>>]

\* ------------------------------------------------------- AgentWallet: ledger

\* getTodayKey: the key of the current calendar day.
GetTodayKey == today

\* getTodaySpentFromLedger: Number(this.spendLedger[key] || 0).
GetTodaySpentFromLedger == spendLedger[GetTodayKey]

\* loadSpendLedger: readFileSync and JSON.parse inside try, the catch block
\* empty; what was parsed is taken when (parsed && typeof parsed ===
\* 'object'), which an array is too.
ParsesToObject(file) == file.exists /\ file.form \in {"ledger", "array"}

\* loadSpendLedger: the day entries of this.spendLedger afterwards; without
\* a file that parses to an object the ledger stays {}.
LoadSpendLedger(file) == IF ParsesToObject(file) THEN file.map ELSE EmptyLedger

\* loadSpendLedger: the kind of object this.spendLedger is afterwards.
LoadedShape(file) ==
    IF file.exists /\ file.form = "array" THEN "array" ELSE "object"

\* An incrementTodaySpend that counts the amount twice.
IncrementTodaySpendTwice(ledger, amountSOL) ==
    [ledger EXCEPT ![GetTodayKey] = ledger[GetTodayKey] + amountSOL + amountSOL]

\* incrementTodaySpend: the ledger after adding amountSOL to today's entry.
IncrementTodaySpend(ledger, amountSOL) ==
    [ledger EXCEPT ![GetTodayKey] = ledger[GetTodayKey] + amountSOL]

\* JSON.stringify(this.spendLedger, null, 2): of an object its entries, of
\* an array its elements, without the properties that days name.
Stringify(ledger, shape) ==
    IF shape = "array"
    THEN [exists |-> TRUE, form |-> "array", map |-> EmptyLedger]
    ELSE [exists |-> TRUE, form |-> "ledger", map |-> ledger]

\* A save that fails and is swallowed every time: the file stays as it was.
SaveSpendLedgerLost(file, ledger, shape) == file

\* saveSpendLedger: the file after writeFileSync of the whole ledger, inside
\* try with an empty catch block: a write that fails leaves the file.
SaveSpendLedger(file, ledger, shape) ==
    IF diskOk THEN Stringify(ledger, shape) ELSE file

\* ------------------------------------------------------- AgentWallet: policy

\* The first check reading the daily cap where it should read the
\* per-transaction limit.
PerTxExceededWrongLimit(amountSOL) ==
    maxDailySpend > 0 /\ amountSOL > maxDailySpend

\* sendSOL, first check: the per-transaction limit.
PerTxExceeded(amountSOL) ==
    maxSpendPerTx > 0 /\ amountSOL > maxSpendPerTx

\* The second check with >= for >.
DailyCapExceededInclusive(amountSOL) ==
    maxDailySpend > 0 /\ GetTodaySpentFromLedger + amountSOL >= maxDailySpend

\* sendSOL, second check: the daily cap.
DailyCapExceeded(amountSOL) ==
    maxDailySpend > 0 /\ GetTodaySpentFromLedger + amountSOL > maxDailySpend

PolicyRejects(amountSOL) == PerTxExceeded(amountSOL) \/ DailyCapExceeded(amountSOL)

\* A TransactionRecord, as far as the wallet's own logic reads or writes it.
Record(type, amount, status) ==
    [type |-> type, amount |-> amount, status |-> status,
     error |-> IF status = "failed" THEN "err" ELSE "none"]

\* The start of any call: the bookkeeping of the call in flight.
BeginCall(op, amount) ==
    /\ wpc = "idle"
    /\ nCalls < MaxCalls
    /\ nCalls' = nCalls + 1
    /\ callOp' = op
    /\ callAmount' = amount

\* The policy checks made inside the try block: the rejection is recorded as a
\* failed transfer.
SendSOLPolicyThrowRecorded ==
    /\ callResult' = "policy_error"
    /\ wpc' = "idle"
    /\ callNet' = 0
    /\ callChecked' = FALSE
    /\ callSubmitted' = FALSE
    /\ callSubmits' = 0
    /\ txHistory' = Append(txHistory, Record("SOL_TRANSFER", callAmount', "failed"))
    /\ UNCHANGED <<spendLedger, ledgerFile, confirmedSum>>

\* sendSOL throws from a policy check: nothing else has happened.
SendSOLPolicyThrow ==
    /\ callResult' = "policy_error"
    /\ wpc' = "idle"
    /\ callNet' = 0
    /\ callChecked' = FALSE
    /\ callSubmitted' = FALSE
    /\ callSubmits' = 0
    /\ UNCHANGED <<txHistory, spendLedger, ledgerFile, confirmedSum>>

\* sendSOL throws from new PublicKey(toAddress), after the checks and before
\* the record and the try block.
SendSOLAddressThrow ==
    /\ callResult' = "error"
    /\ wpc' = "idle"
    /\ callNet' = 0
    /\ callChecked' = TRUE
    /\ callSubmitted' = FALSE
    /\ callSubmits' = 0
    /\ UNCHANGED <<txHistory, spendLedger, ledgerFile, confirmedSum>>

\* sendSOL reaches its first await (prepareTransfer's getLatestBlockhash).
SendSOLProceed ==
    /\ callResult' = "pending"
    /\ wpc' = "sol_prepare"
    /\ callNet' = 0
    /\ callChecked' = TRUE
    /\ callSubmitted' = FALSE
    /\ callSubmits' = 0
    /\ UNCHANGED <<txHistory, spendLedger, ledgerFile, confirmedSum>>

\* sendSOL(toAddress, amountSOL), up to its first await.
SendSOL(addressValid, amountSOL) ==
    /\ BeginCall("sendSOL", amountSOL)
    /\ IF PolicyRejects(amountSOL) THEN SendSOLPolicyThrow
       ELSE IF ~addressValid THEN SendSOLAddressThrow
       ELSE SendSOLProceed
    /\ UNCHANGED <<maxSpendPerTx, maxDailySpend, today>>
    /\ UNCHANGED <<attempts, agentVars, peerVars, keyVars, histVars, dexVars>>
    /\ UNCHANGED <<diskVars, tradeVars, oracleVars>>

\* A catch block that submits again when the submission failed.
SendSOLCatchRetry ==
    IF wpc = "sol_send"
    THEN /\ wpc' = "sol_send"
         /\ UNCHANGED <<txHistory, callResult, spendLedger, ledgerFile,
                        confirmedSum>>
    ELSE /\ txHistory' = Append(txHistory, Record("SOL_TRANSFER", callAmount, "failed"))
         /\ callResult' = "error"
         /\ wpc' = "idle"
         /\ UNCHANGED <<spendLedger, ledgerFile, confirmedSum>>

\* sendSOL's catch block: one failed record, the error rethrown.
SendSOLCatch ==
    /\ txHistory' = Append(txHistory, Record("SOL_TRANSFER", callAmount, "failed"))
    /\ callResult' = "error"
    /\ wpc' = "idle"
    /\ UNCHANGED <<spendLedger, ledgerFile, confirmedSum>>

\* sendSOL after simulateAndSend returned: the confirmed record, the ledger
\* incremented and saved.
SendSOLConfirmed ==
    /\ txHistory' = Append(txHistory, Record("SOL_TRANSFER", callAmount, "confirmed"))
    /\ spendLedger' = IncrementTodaySpend(spendLedger, callAmount)
    /\ ledgerFile' = SaveSpendLedger(ledgerFile, spendLedger', ledgerShape)
    /\ confirmedSum' = [confirmedSum EXCEPT ![today] = @ + callAmount]
    /\ callResult' = "ok"
    /\ wpc' = "idle"

\* prepareTransfer: getLatestBlockhash answers or fails.
SolPrepare(ok) ==
    /\ wpc = "sol_prepare"
    /\ callNet' = callNet + 1
    /\ IF ok
       THEN /\ wpc' = "sol_simulate"
            /\ UNCHANGED <<txHistory, spendLedger, ledgerFile, confirmedSum,
                           callResult>>
       ELSE SendSOLCatch
    /\ UNCHANGED <<maxSpendPerTx, maxDailySpend, today, callOp, callAmount,
                   callChecked, callSubmitted, callSubmits, nCalls>>
    /\ UNCHANGED <<attempts, agentVars, peerVars, keyVars, histVars, dexVars>>
    /\ UNCHANGED <<diskVars, tradeVars, oracleVars>>

\* simulateAndSend: simulateTransaction answers clean, or answers an error or
\* fails.
SolSimulate(ok) ==
    /\ wpc = "sol_simulate"
    /\ callNet' = callNet + 1
    /\ IF ok
       THEN /\ wpc' = "sol_send"
            /\ UNCHANGED <<txHistory, spendLedger, ledgerFile, confirmedSum,
                           callResult>>
       ELSE SendSOLCatch
    /\ UNCHANGED <<maxSpendPerTx, maxDailySpend, today, callOp, callAmount,
                   callChecked, callSubmitted, callSubmits, nCalls>>
    /\ UNCHANGED <<attempts, agentVars, peerVars, keyVars, histVars, dexVars>>
    /\ UNCHANGED <<diskVars, tradeVars, oracleVars>>

\* simulateAndSend: sendRawTransaction accepts the transaction or fails.
SolSend(ok) ==
    /\ wpc = "sol_send"
    /\ callNet' = callNet + 1
    /\ callSubmitted' = TRUE
    /\ callSubmits' = callSubmits + 1
    /\ IF ok
       THEN /\ wpc' = "sol_confirm"
            /\ UNCHANGED <<txHistory, spendLedger, ledgerFile, confirmedSum,
                           callResult>>
       ELSE SendSOLCatch
    /\ UNCHANGED <<maxSpendPerTx, maxDailySpend, today, callOp, callAmount,
                   callChecked, nCalls>>
    /\ UNCHANGED <<attempts, agentVars, peerVars, keyVars, histVars, dexVars>>
    /\ UNCHANGED <<diskVars, tradeVars, oracleVars>>

\* simulateAndSend: confirmTransaction resolves or throws.
SolConfirm(ok) ==
    /\ wpc = "sol_confirm"
    /\ callNet' = callNet + 1
    /\ IF ok THEN SendSOLConfirmed ELSE SendSOLCatch
    /\ lossy' = (lossy \/ (ok /\ ~diskOk))
    /\ UNCHANGED <<maxSpendPerTx, maxDailySpend, today, callOp, callAmount,
                   callChecked, callSubmitted, callSubmits, nCalls>>
    /\ UNCHANGED <<attempts, agentVars, peerVars, keyVars, histVars, dexVars>>
    /\ UNCHANGED <<ledgerShape, diskOk, tradeVars, oracleVars>>

\* ------------------------------------------------------ AgentWallet: sendSPL

\* sendSPL(toAddress, mintAddress, amount), up to its first await (getMint).
\* No spend-limit check is made. new PublicKey(...) throws on a malformed
\* address before anything else.
SendSPL(addressValid, amount) ==
    /\ BeginCall("sendSPL", amount)
    /\ callNet' = 0
    /\ callChecked' = FALSE
    /\ callSubmitted' = FALSE
    /\ callSubmits' = 0
    /\ IF addressValid
       THEN callResult' = "pending" /\ wpc' = "spl_mint"
       ELSE callResult' = "error" /\ wpc' = "idle"
    /\ UNCHANGED <<maxSpendPerTx, maxDailySpend, today, txHistory, spendLedger,
                   ledgerFile, confirmedSum>>
    /\ UNCHANGED <<attempts, agentVars, peerVars, keyVars, histVars, dexVars>>
    /\ UNCHANGED <<diskVars, tradeVars, oracleVars>>

\* sendSPL's catch block.
SendSPLCatch ==
    /\ txHistory' = Append(txHistory, Record("SPL_TRANSFER", callAmount, "failed"))
    /\ callResult' = "error"
    /\ wpc' = "idle"

\* getMint answers or fails; it is awaited outside the try block, so a failure
\* leaves no record.
SplMint(ok) ==
    /\ wpc = "spl_mint"
    /\ callNet' = callNet + 1
    /\ IF ok
       THEN wpc' = "spl_fromATA" /\ UNCHANGED callResult
       ELSE wpc' = "idle" /\ callResult' = "error"
    /\ UNCHANGED <<maxSpendPerTx, maxDailySpend, today, txHistory, spendLedger,
                   ledgerFile, confirmedSum, callOp, callAmount, callChecked,
                   callSubmitted, callSubmits, nCalls>>
    /\ UNCHANGED <<attempts, agentVars, peerVars, keyVars, histVars, dexVars>>
    /\ UNCHANGED <<diskVars, tradeVars, oracleVars>>

\* getOrCreateAssociatedTokenAccount for the sender, then for the receiver.
SplAccount(ok) ==
    /\ wpc \in {"spl_fromATA", "spl_toATA"}
    /\ callNet' = callNet + 1
    /\ IF ok
       THEN /\ wpc' = IF wpc = "spl_fromATA" THEN "spl_toATA" ELSE "spl_transfer"
            /\ UNCHANGED <<txHistory, callResult>>
       ELSE SendSPLCatch
    /\ UNCHANGED <<maxSpendPerTx, maxDailySpend, today, spendLedger, ledgerFile,
                   confirmedSum, callOp, callAmount, callChecked, callSubmitted,
                   callSubmits, nCalls>>
    /\ UNCHANGED <<attempts, agentVars, peerVars, keyVars, histVars, dexVars>>
    /\ UNCHANGED <<diskVars, tradeVars, oracleVars>>

\* splTransfer signs, submits and confirms; the ledger is not touched.
SplTransfer(ok) ==
    /\ wpc = "spl_transfer"
    /\ callNet' = callNet + 1
    /\ callSubmitted' = TRUE
    /\ callSubmits' = callSubmits + 1
    /\ IF ok
       THEN /\ txHistory' = Append(txHistory, Record("SPL_TRANSFER", callAmount, "confirmed"))
            /\ callResult' = "ok"
            /\ wpc' = "idle"
       ELSE SendSPLCatch
    /\ UNCHANGED <<maxSpendPerTx, maxDailySpend, today, spendLedger, ledgerFile,
                   confirmedSum, callOp, callAmount, callChecked, nCalls>>
    /\ UNCHANGED <<attempts, agentVars, peerVars, keyVars, histVars, dexVars>>
    /\ UNCHANGED <<diskVars, tradeVars, oracleVars>>

\* -------------------------------------------------- AgentWallet: signAndSend

\* signAndSend(transaction), up to its await of sendAndConfirmTransaction. No
\* spend-limit check is made; the wallet does not know what the transaction
\* moves and records amount 0.
SignAndSend ==
    /\ BeginCall("signAndSend", 0)
    /\ callNet' = 0
    /\ callChecked' = FALSE
    /\ callSubmitted' = FALSE
    /\ callSubmits' = 0
    /\ callResult' = "pending"
    /\ wpc' = "custom_send"
    /\ UNCHANGED <<maxSpendPerTx, maxDailySpend, today, txHistory, spendLedger,
                   ledgerFile, confirmedSum>>
    /\ UNCHANGED <<attempts, agentVars, peerVars, keyVars, histVars, dexVars>>
    /\ UNCHANGED <<diskVars, tradeVars, oracleVars>>

\* sendAndConfirmTransaction resolves (a CUSTOM record with amount 0 is
\* pushed) or throws (no record: the record is built after the await).
CustomSend(ok) ==
    /\ wpc = "custom_send"
    /\ callNet' = callNet + 1
    /\ callSubmitted' = TRUE
    /\ callSubmits' = callSubmits + 1
    /\ wpc' = "idle"
    /\ IF ok
       THEN /\ txHistory' = Append(txHistory, Record("CUSTOM", 0, "confirmed"))
            /\ callResult' = "ok"
       ELSE /\ UNCHANGED txHistory
            /\ callResult' = "error"
    /\ UNCHANGED <<maxSpendPerTx, maxDailySpend, today, spendLedger, ledgerFile,
                   confirmedSum, callOp, callAmount, callChecked, nCalls>>
    /\ UNCHANGED <<attempts, agentVars, peerVars, keyVars, histVars, dexVars>>
    /\ UNCHANGED <<diskVars, tradeVars, oracleVars>>

\* ----------------------------------------------- AgentWallet: requestAirdrop

\* requestAirdrop(amountSOL), up to its await of connection.requestAirdrop.
RequestAirdrop(amount) ==
    /\ BeginCall("requestAirdrop", amount)
    /\ callNet' = 0
    /\ callChecked' = FALSE
    /\ callSubmitted' = FALSE
    /\ callSubmits' = 0
    /\ callResult' = "pending"
    /\ wpc' = "airdrop_request"
    /\ UNCHANGED <<maxSpendPerTx, maxDailySpend, today, txHistory, spendLedger,
                   ledgerFile, confirmedSum>>
    /\ UNCHANGED <<attempts, agentVars, peerVars, keyVars, histVars, dexVars>>
    /\ UNCHANGED <<diskVars, tradeVars, oracleVars>>

\* The faucet request, then its confirmation; either may fail.
AirdropStep(ok) ==
    /\ wpc \in {"airdrop_request", "airdrop_confirm"}
    /\ callNet' = callNet + 1
    /\ IF ~ok
       THEN /\ txHistory' = Append(txHistory, Record("AIRDROP", callAmount, "failed"))
            /\ callResult' = "error"
            /\ wpc' = "idle"
       ELSE IF wpc = "airdrop_request"
       THEN /\ wpc' = "airdrop_confirm"
            /\ UNCHANGED <<txHistory, callResult>>
       ELSE /\ txHistory' = Append(txHistory, Record("AIRDROP", callAmount, "confirmed"))
            /\ callResult' = "ok"
            /\ wpc' = "idle"
    /\ UNCHANGED <<maxSpendPerTx, maxDailySpend, today, spendLedger, ledgerFile,
                   confirmedSum, callOp, callAmount, callChecked, callSubmitted,
                   callSubmits, nCalls>>
    /\ UNCHANGED <<attempts, agentVars, peerVars, keyVars, histVars, dexVars>>
    /\ UNCHANGED <<diskVars, tradeVars, oracleVars>>

\* ---------------------------------------------- AgentWallet: getSOLBalance

\* The loop bound of getSOLBalance: while (attempts < 3).
BalanceAttempts == 3

\* getSOLBalance(), up to its first await of connection.getBalance.
GetSOLBalance ==
    /\ BeginCall("getSOLBalance", 0)
    /\ attempts' = 0
    /\ callNet' = 0
    /\ callChecked' = FALSE
    /\ callSubmitted' = FALSE
    /\ callSubmits' = 0
    /\ callResult' = "pending"
    /\ wpc' = "bal_read"
    /\ UNCHANGED <<maxSpendPerTx, maxDailySpend, today, txHistory, spendLedger,
                   ledgerFile, confirmedSum>>
    /\ UNCHANGED <<agentVars, peerVars, keyVars, histVars, dexVars>>
    /\ UNCHANGED <<diskVars, tradeVars, oracleVars>>

\* connection.getBalance answers (the balance is returned) or fails (the
\* catch block awaits the backoff delay).
BalRead(ok) ==
    /\ wpc = "bal_read"
    /\ callNet' = callNet + 1
    /\ IF ok
       THEN callResult' = "ok" /\ wpc' = "idle"
       ELSE wpc' = "bal_sleep" /\ UNCHANGED callResult
    /\ UNCHANGED <<maxSpendPerTx, maxDailySpend, today, txHistory, spendLedger,
                   ledgerFile, confirmedSum, callOp, callAmount, callChecked,
                   callSubmitted, callSubmits, nCalls, attempts>>
    /\ UNCHANGED <<agentVars, peerVars, keyVars, histVars, dexVars>>
    /\ UNCHANGED <<diskVars, tradeVars, oracleVars>>

\* The loop going round once more than its bound allows.
BalBackoffFourth ==
    /\ wpc = "bal_sleep"
    /\ attempts' = attempts + 1
    /\ IF attempts' <= BalanceAttempts
       THEN wpc' = "bal_read" /\ UNCHANGED callResult
       ELSE wpc' = "idle" /\ callResult' = "error"
    /\ UNCHANGED <<maxSpendPerTx, maxDailySpend, today, txHistory, spendLedger,
                   ledgerFile, confirmedSum, callOp, callAmount, callChecked,
                   callSubmitted, callSubmits, nCalls, callNet>>
    /\ UNCHANGED <<agentVars, peerVars, keyVars, histVars, dexVars>>
    /\ UNCHANGED <<diskVars, tradeVars, oracleVars>>

\* The backoff delay ends: attempts++, then the loop condition; when it fails
\* the last error is thrown.
BalBackoff ==
    /\ wpc = "bal_sleep"
    /\ attempts' = attempts + 1
    /\ IF attempts' < BalanceAttempts
       THEN wpc' = "bal_read" /\ UNCHANGED callResult
       ELSE wpc' = "idle" /\ callResult' = "error"
    /\ UNCHANGED <<maxSpendPerTx, maxDailySpend, today, txHistory, spendLedger,
                   ledgerFile, confirmedSum, callOp, callAmount, callChecked,
                   callSubmitted, callSubmits, nCalls, callNet>>
    /\ UNCHANGED <<agentVars, peerVars, keyVars, histVars, dexVars>>
    /\ UNCHANGED <<diskVars, tradeVars, oracleVars>>

\* ------------------------------------------------ AgentWallet: construction

\* The process ends between calls and a new AgentWallet is constructed for the
\* same agentId: limits from the environment, the ledger from its file, an
\* empty history.
Restart ==
    /\ wpc = "idle"
    /\ spendLedger' = LoadSpendLedger(ledgerFile)
    /\ ledgerShape' = LoadedShape(ledgerFile)
    /\ txHistory' = <<>>
    /\ callOp' = "none"
    /\ callAmount' = 0
    /\ callResult' = "none"
    /\ callNet' = 0
    /\ callChecked' = FALSE
    /\ callSubmitted' = FALSE
    /\ callSubmits' = 0
    /\ UNCHANGED <<maxSpendPerTx, maxDailySpend, today, ledgerFile, wpc, nCalls,
                   confirmedSum>>
    /\ handed' = NoHanded
    /\ UNCHANGED <<attempts, agentVars, peerVars, keyVars, dexVars>>
    /\ UNCHANGED <<diskOk, lossy, tradeVars, oracleVars>>

\* Midnight: the wall clock moves to the next calendar day.
NextDay ==
    /\ today < MaxDay
    /\ today' = today + 1
    /\ UNCHANGED <<maxSpendPerTx, maxDailySpend, spendLedger, ledgerFile,
                   txHistory, wpc, callOp, callAmount, callResult, callNet,
                   callChecked, callSubmitted, callSubmits, nCalls, confirmedSum>>
    /\ UNCHANGED <<attempts, agentVars, peerVars, keyVars, histVars, dexVars>>
    /\ UNCHANGED <<diskVars, tradeVars, oracleVars>>

\* The state after new AgentWallet(config) on a machine with no ledger file.
WalletInit ==
    /\ maxSpendPerTx \in {0, PerTxLimit}
    /\ maxDailySpend \in {0, DailyCap}
    /\ today = 1
    /\ ledgerFile = NoLedgerFile
    /\ spendLedger = LoadSpendLedger(ledgerFile)
    /\ txHistory = <<>>
    /\ wpc = "idle"
    /\ callOp = "none"
    /\ callAmount = 0
    /\ callResult = "none"
    /\ callNet = 0
    /\ callChecked = FALSE
    /\ callSubmitted = FALSE
    /\ callSubmits = 0
    /\ attempts = 0
    /\ nCalls = 0
    /\ confirmedSum = EmptyLedger

WalletNext ==
    \/ \E v \in BOOLEAN, a \in Amounts : SendSOL(v, a)
    \/ \E ok \in BOOLEAN : SolPrepare(ok)
    \/ \E ok \in BOOLEAN : SolSimulate(ok)
    \/ \E ok \in BOOLEAN : SolSend(ok)
    \/ \E ok \in BOOLEAN : SolConfirm(ok)
    \/ \E v \in BOOLEAN, a \in OtherAmounts : SendSPL(v, a)
    \/ \E ok \in BOOLEAN : SplMint(ok)
    \/ \E ok \in BOOLEAN : SplAccount(ok)
    \/ \E ok \in BOOLEAN : SplTransfer(ok)
    \/ SignAndSend
    \/ \E ok \in BOOLEAN : CustomSend(ok)
    \/ \E a \in OtherAmounts : RequestAirdrop(a)
    \/ \E ok \in BOOLEAN : AirdropStep(ok)
    \/ GetSOLBalance
    \/ \E ok \in BOOLEAN : BalRead(ok)
    \/ BalBackoff
    \/ Restart
    \/ NextDay

\* ------------------------------- AgentWallet: the ledger file and the process

\* A wallet on a disk that takes every write, in a process that is not killed.
DiskAtRest ==
    /\ ledgerShape = "object"
    /\ diskOk = TRUE
    /\ lossy = FALSE

\* Something other than the wallet leaves bytes in the ledger file that are
\* not a ledger; no day has an entry in them.
CorruptLedgerFile(form) ==
    /\ form \in FileForms \ {"ledger"}
    /\ ~(ledgerFile.exists /\ ledgerFile.form = form)
    /\ ledgerFile' = [exists |-> TRUE, form |-> form, map |-> EmptyLedger]
    /\ UNCHANGED <<maxSpendPerTx, maxDailySpend, today, spendLedger, txHistory,
                   wpc, callOp, callAmount, callResult, callNet, callChecked,
                   callSubmitted, callSubmits, attempts, nCalls, confirmedSum>>
    /\ UNCHANGED <<agentVars, peerVars, keyVars, histVars, dexVars>>
    /\ UNCHANGED <<diskVars, tradeVars, oracleVars>>

\* The file system stops taking writes to the ledger file (disk full, the
\* directory read-only): writeFileSync throws from now on.
DiskFails ==
    /\ diskOk
    /\ diskOk' = FALSE
    /\ UNCHANGED <<ledgerShape, lossy>>
    /\ UNCHANGED <<walletVars, agentVars, peerVars, keyVars, histVars, dexVars>>
    /\ UNCHANGED <<tradeVars, oracleVars>>

\* The file system takes writes again.
DiskRecovers ==
    /\ ~diskOk
    /\ diskOk' = TRUE
    /\ UNCHANGED <<ledgerShape, lossy>>
    /\ UNCHANGED <<walletVars, agentVars, peerVars, keyVars, histVars, dexVars>>
    /\ UNCHANGED <<tradeVars, oracleVars>>

\* Where a kill leaves a call: the transaction it may have submitted is never
\* confirmed; or the network confirms it and the process dies before
\* incrementTodaySpend wrote the file; or it dies inside writeFileSync, which
\* had truncated the file.
CrashOutcomes == {"not_confirmed", "before_write", "during_write"}

\* The file a kill leaves behind.
FileAfterCrash(outcome) ==
    IF outcome = "during_write"
    THEN [exists |-> TRUE, form |-> "unparsable", map |-> EmptyLedger]
    ELSE ledgerFile

\* The process is killed while a call is in flight and a new AgentWallet is
\* constructed for the same agentId: the ledger from its file, an empty
\* history.
Crash(outcome) ==
    /\ wpc # "idle"
    /\ outcome # "not_confirmed" => wpc = "sol_confirm"
    /\ outcome = "during_write" => diskOk
    /\ ledgerFile' = FileAfterCrash(outcome)
    /\ confirmedSum' = IF outcome = "not_confirmed" THEN confirmedSum
                       ELSE [confirmedSum EXCEPT ![today] = @ + callAmount]
    /\ spendLedger' = LoadSpendLedger(ledgerFile')
    /\ ledgerShape' = LoadedShape(ledgerFile')
    /\ lossy' = TRUE
    /\ txHistory' = <<>>
    /\ wpc' = "idle"
    /\ callOp' = "none"
    /\ callAmount' = 0
    /\ callResult' = "none"
    /\ callNet' = 0
    /\ callChecked' = FALSE
    /\ callSubmitted' = FALSE
    /\ callSubmits' = 0
    /\ attempts' = 0
    /\ handed' = NoHanded
    /\ UNCHANGED <<maxSpendPerTx, maxDailySpend, today, nCalls, diskOk>>
    /\ UNCHANGED <<agentVars, peerVars, keyVars, dexVars>>
    /\ UNCHANGED <<tradeVars, oracleVars>>

\* One wallet whose ledger file others may overwrite between its calls.
LedgerFileNext ==
    \/ \E v \in BOOLEAN, a \in Amounts : SendSOL(v, a)
    \/ \E ok \in BOOLEAN : SolPrepare(ok)
    \/ \E ok \in BOOLEAN : SolSimulate(ok)
    \/ \E ok \in BOOLEAN : SolSend(ok)
    \/ \E ok \in BOOLEAN : SolConfirm(ok)
    \/ Restart
    \/ NextDay
    \/ \E form \in FileForms \ {"ledger"} : CorruptLedgerFile(form)

\* One wallet in a process that may be killed, on a disk that may fail.
CrashNext ==
    \/ \E v \in BOOLEAN, a \in Amounts : SendSOL(v, a)
    \/ \E ok \in BOOLEAN : SolPrepare(ok)
    \/ \E ok \in BOOLEAN : SolSimulate(ok)
    \/ \E ok \in BOOLEAN : SolSend(ok)
    \/ \E ok \in BOOLEAN : SolConfirm(ok)
    \/ Restart
    \/ NextDay
    \/ DiskFails
    \/ DiskRecovers
    \/ \E o \in CrashOutcomes : Crash(o)

\* ------------------------------------- AgentWallet: a second wallet instance

\* The agentId of the wallet modelled above.
WalletId == "alpha"

\* The agentIds a second wallet instance may be constructed for: the same
\* one (a second registry over the same key store) or another agent's.
AgentIds == {"alpha", "beta"}

\* Every instance resolves its ledger to the same path, whatever its agentId.
SpendLedgerPathShared(agentId) == <<".agent-keys", "agent", "spend.json">>

\* constructor: path.resolve(cwd, '.agent-keys', `${agentId}.spend.json`),
\* for agentIds that are plain names.
SpendLedgerPath(agentId) == <<".agent-keys", agentId, "spend.json">>

\* Whether the second instance's ledger file is the first one's.
SameFile == SpendLedgerPath(peerId) = SpendLedgerPath(WalletId)

PeerFile == IF SameFile THEN ledgerFile ELSE otherFile

\* new AgentWallet({agentId: peerId, ...}): the ledger is loaded from the
\* file at its path.
PeerConstruct ==
    /\ peerLedger' = LoadSpendLedger(PeerFile)
    /\ peerLive' = TRUE
    /\ UNCHANGED <<peerId, otherFile, peerConfirmed, peerCalls>>
    /\ UNCHANGED <<walletVars, agentVars, keyVars, histVars, dexVars>>
    /\ UNCHANGED <<diskVars, tradeVars, oracleVars>>

\* The second instance's two spend-limit checks, on its own ledger.
PeerPolicyRejects(amountSOL) ==
    \/ maxSpendPerTx > 0 /\ amountSOL > maxSpendPerTx
    \/ maxDailySpend > 0 /\ peerLedger[GetTodayKey] + amountSOL > maxDailySpend

\* A whole sendSOL call of the second instance, from its checks to its
\* outcome: rejected or failed (its ledger untouched), or confirmed (its
\* ledger incremented and the whole map written to its file). Its awaits
\* touch nothing the first instance reads, so the call is one step.
PeerSendSOL(amountSOL, ok) ==
    /\ peerLive
    /\ peerCalls < MaxPeerCalls
    /\ peerCalls' = peerCalls + 1
    /\ IF PeerPolicyRejects(amountSOL) \/ ~ok
       THEN UNCHANGED <<peerLedger, otherFile, peerConfirmed, ledgerFile>>
       ELSE /\ peerLedger' = IncrementTodaySpend(peerLedger, amountSOL)
            /\ peerConfirmed' = [peerConfirmed EXCEPT ![today] = @ + amountSOL]
            /\ IF SameFile
               THEN /\ ledgerFile' =
                           SaveSpendLedger(ledgerFile, peerLedger', "object")
                    /\ UNCHANGED otherFile
               ELSE /\ otherFile' =
                           SaveSpendLedger(otherFile, peerLedger', "object")
                    /\ UNCHANGED ledgerFile
    /\ UNCHANGED <<peerId, peerLive>>
    /\ UNCHANGED <<maxSpendPerTx, maxDailySpend, today, spendLedger, txHistory,
                   wpc, callOp, callAmount, callResult, callNet, callChecked,
                   callSubmitted, callSubmits, nCalls, confirmedSum, attempts>>
    /\ UNCHANGED <<agentVars, keyVars, histVars, dexVars>>
    /\ UNCHANGED <<diskVars, tradeVars, oracleVars>>

\* No second instance has been constructed yet.
PeerNotBuilt ==
    /\ peerLive = FALSE
    /\ peerLedger = EmptyLedger
    /\ otherFile = NoLedgerFile
    /\ peerConfirmed = EmptyLedger
    /\ peerCalls = 0

\* Two wallets in one deployment: the second one's agentId is the first
\* one's or another.
PeerInit ==
    /\ peerId \in AgentIds
    /\ PeerNotBuilt

\* A deployment in which no second instance is ever constructed.
PeerAtRest ==
    /\ peerId = "beta"
    /\ PeerNotBuilt

PeersNext ==
    \/ \E v \in BOOLEAN, a \in Amounts : SendSOL(v, a)
    \/ \E ok \in BOOLEAN : SolPrepare(ok)
    \/ \E ok \in BOOLEAN : SolSimulate(ok)
    \/ \E ok \in BOOLEAN : SolSend(ok)
    \/ \E ok \in BOOLEAN : SolConfirm(ok)
    \/ Restart
    \/ PeerConstruct
    \/ \E a \in Amounts, ok \in BOOLEAN : PeerSendSOL(a, ok)

\* ---------------------------------------------------- BaseAgent: the loop

Phases == {"balance", "observe", "think", "act"}

NoneInFlight == [p \in Phases |-> 0]

\* The number of runCycle activations that have started and not yet settled.
RECURSIVE SumOver(_, _)
SumOver(f, S) ==
    IF S = {} THEN 0
    ELSE LET p == CHOOSE q \in S : TRUE IN f[p] + SumOver(f, S \ {p})

InFlight == SumOver(inflight, Phases)

\* constructor: this.maxCycles = config.maxCycles || Infinity; the comparison
\* this.cycleCount >= this.maxCycles of scheduleNextCycle.
MaxCyclesReached(count) == maxCycles # 0 /\ count >= maxCycles

\* What a handler has done so far: the state and the timers it leaves, the
\* events it emitted (each with the type of its audit line and whether that
\* line had been handed to logEvent when the listeners ran), the lines handed
\* to logEvent, the lines that reached the file, and whether logEvent threw.
\* fs tells whether the audit file can be written while the handler runs.
Loop(st, armed, stray) ==
    [state |-> st, armed |-> armed, stray |-> stray, fs |-> TRUE,
     events |-> <<>>, written |-> <<>>, log |-> <<>>, threw |-> FALSE]

\* The same handler with the audit file writable or not.
Writable(l, fs) == [l EXCEPT !.fs = fs]

\* this.emit(type, ...): the listeners run now, synchronously.
Emit(l, type, line) ==
    [l EXCEPT !.events =
        Append(@, [type |-> type, line |-> line,
                   logged |-> \E i \in 1..Len(l.written) : l.written[i] = line])]

\* logEvent() without its try/catch: a failed append is thrown.
LogEventUnguarded(l, line) ==
    [l EXCEPT !.written = Append(@, line),
              !.log = IF l.fs THEN Append(@, line) ELSE @,
              !.threw = @ \/ ~l.fs]

\* logEvent(): try { fs.appendFileSync(...) } catch {}.
LogEvent(l, line) ==
    [l EXCEPT !.written = Append(@, line),
              !.log = IF l.fs THEN Append(@, line) ELSE @]

\* stop(): clearTimeout(this.cycleTimer), state = 'stopped', emit, logEvent.
StopLoop(l) ==
    LogEvent(Emit([l EXCEPT !.state = "stopped", !.armed = FALSE],
                  "stopped", "stopped"), "stopped")

\* scheduleNextCycle(): nothing when stopped or paused; stop() when the cycle
\* budget is used up; otherwise a new timeout whose handle replaces the old
\* one, which is not cleared.
ScheduleNextCycle(l, count) ==
    IF l.state \in {"stopped", "paused"} THEN l
    ELSE IF MaxCyclesReached(count) THEN StopLoop(l)
    ELSE [l EXCEPT !.armed = TRUE,
                   !.stray = IF l.armed THEN l.stray + 1 ELSE l.stray]

Here == Loop(state, timerArmed, strayTimers)

\* Writes a handler's result to the variables; a step that would leave more
\* stray timers than the bound allows is not taken.
Becomes(l) ==
    /\ l.stray <= MaxStray
    /\ state' = l.state
    /\ timerArmed' = l.armed
    /\ strayTimers' = l.stray
    /\ lastEvents' = l.events
    /\ lastLog' = l.log

\* A handler that returned (or threw) before it emitted or logged anything.
Silent ==
    /\ lastEvents' = <<>>
    /\ lastLog' = <<>>

Step(op, outcome) == [op |-> op, outcome |-> outcome]

agentConfig == <<maxCycles, minBalanceSet, hasErrorListener>>

\* start() on a loop that is not stopped: state = 'idle', emit('started'),
\* logEvent, scheduleNextCycle().
StartOutcome(fs) ==
    ScheduleNextCycle(
        LogEvent(Emit(Writable(Loop("idle", timerArmed, strayTimers), fs),
                      "started", "started"), "started"),
        cycleCount)

\* start(): throws when stopped.
Start(fs) ==
    /\ IF state = "stopped"
       THEN /\ startThrew' = TRUE
            /\ lastStep' = Step("start", "throw")
            /\ Silent
            /\ UNCHANGED <<state, timerArmed, strayTimers, pausedBy>>
       ELSE /\ startThrew' = FALSE
            /\ lastStep' = Step("start", "ok")
            /\ pausedBy' = "none"
            /\ Becomes(StartOutcome(fs))
    /\ UNCHANGED <<agentConfig, cycleCount, inflight, completed, stopCalled>>
    /\ UNCHANGED <<walletVars, peerVars, keyVars, histVars, dexVars>>
    /\ UNCHANGED <<diskVars, tradeVars, oracleVars>>

\* pause(): clearTimeout(this.cycleTimer), state = 'paused', whatever the
\* state was; emit('paused'), logEvent.
PauseOutcome(fs) ==
    LogEvent(Emit(Writable(Loop("paused", FALSE, strayTimers), fs),
                  "paused", "paused"), "paused")

Pause(fs) ==
    /\ Becomes(PauseOutcome(fs))
    /\ lastStep' = Step("pause", "ok")
    /\ pausedBy' = "pause"
    /\ UNCHANGED <<agentConfig, cycleCount, inflight, completed, stopCalled,
                   startThrew>>
    /\ UNCHANGED <<walletVars, peerVars, keyVars, histVars, dexVars>>
    /\ UNCHANGED <<diskVars, tradeVars, oracleVars>>

\* resume() on a paused loop: state = 'idle', emit('resumed'), logEvent,
\* scheduleNextCycle().
ResumeOutcome(fs) ==
    ScheduleNextCycle(
        LogEvent(Emit(Writable(Loop("idle", timerArmed, strayTimers), fs),
                      "resumed", "resumed"), "resumed"),
        cycleCount)

\* resume() without its first line.
ResumeUnguarded(fs) ==
    /\ lastStep' = Step("resume", IF state # "paused" THEN "noop" ELSE "ok")
    /\ pausedBy' = "none"
    /\ Becomes(ResumeOutcome(fs))
    /\ UNCHANGED <<agentConfig, cycleCount, inflight, completed, stopCalled,
                   startThrew>>
    /\ UNCHANGED <<walletVars, peerVars, keyVars, histVars, dexVars>>
    /\ UNCHANGED <<diskVars, tradeVars, oracleVars>>

\* resume(): returns at once unless paused.
Resume(fs) ==
    /\ IF state # "paused"
       THEN /\ lastStep' = Step("resume", "noop")
            /\ Silent
            /\ UNCHANGED <<state, timerArmed, strayTimers, pausedBy>>
       ELSE /\ lastStep' = Step("resume", "ok")
            /\ pausedBy' = "none"
            /\ Becomes(ResumeOutcome(fs))
    /\ UNCHANGED <<agentConfig, cycleCount, inflight, completed, stopCalled,
                   startThrew>>
    /\ UNCHANGED <<walletVars, peerVars, keyVars, histVars, dexVars>>
    /\ UNCHANGED <<diskVars, tradeVars, oracleVars>>

StopOutcome(fs) == StopLoop(Writable(Here, fs))

\* stop(), called by the operator.
Stop(fs) ==
    /\ Becomes(StopOutcome(fs))
    /\ lastStep' = Step("stop", "ok")
    /\ pausedBy' = "none"
    /\ stopCalled' = TRUE
    /\ UNCHANGED <<agentConfig, cycleCount, inflight, completed, startThrew>>
    /\ UNCHANGED <<walletVars, peerVars, keyVars, histVars, dexVars>>
    /\ UNCHANGED <<diskVars, tradeVars, oracleVars>>

\* runCycle() on a loop that is neither stopped nor paused, up to its first
\* await: state = 'thinking', emit('cycle_start'), logEvent.
CycleStartOutcome(armed, stray, fs) ==
    LogEvent(Emit(Writable(Loop("thinking", armed, stray), fs),
                  "cycle_start", "cycle_start"), "cycle_start")

\* runCycle(), from its entry to its first await: returns when stopped or
\* paused; otherwise counts the cycle, state = 'thinking', and awaits the
\* balance (when a floor is set) or observe().
RunCycleEntry(armed, stray, fs) ==
    IF state \in {"stopped", "paused"}
    THEN /\ lastStep' = Step("timer", "noop")
         /\ timerArmed' = armed
         /\ strayTimers' = stray
         /\ Silent
         /\ UNCHANGED <<state, cycleCount, inflight>>
    ELSE /\ cycleCount < MaxCount
         /\ InFlight < MaxInFlight
         /\ lastStep' = Step("timer", "ok")
         /\ cycleCount' = cycleCount + 1
         /\ Becomes(CycleStartOutcome(armed, stray, fs))
         /\ LET p == IF minBalanceSet THEN "balance" ELSE "observe"
            IN inflight' = [inflight EXCEPT ![p] = @ + 1]

\* A pending timeout expires: the one this.cycleTimer refers to, or one whose
\* handle was overwritten.
TimerFires(current, fs) ==
    /\ IF current
       THEN timerArmed /\ RunCycleEntry(FALSE, strayTimers, fs)
       ELSE strayTimers > 0 /\ RunCycleEntry(timerArmed, strayTimers - 1, fs)
    /\ UNCHANGED <<agentConfig, completed, stopCalled, startThrew, pausedBy>>
    /\ UNCHANGED <<walletVars, peerVars, keyVars, histVars, dexVars>>
    /\ UNCHANGED <<diskVars, tradeVars, oracleVars>>

\* An activation moves from one await point to the next.
Advance(from, to) == [inflight EXCEPT ![from] = @ - 1, ![to] = @ + 1]

\* An activation settles.
Leave(from) == [inflight EXCEPT ![from] = @ - 1]

\* runCycle(), end of the try block and what follows it: state = 'idle',
\* emit('cycle_end'), logEvent, then scheduleNextCycle().
CycleEndOutcome(fs) ==
    ScheduleNextCycle(
        LogEvent(Emit(Writable(Loop("idle", timerArmed, strayTimers), fs),
                      "cycle_end", "cycle_end"), "cycle_end"),
        cycleCount)

CycleEnd(from, fs) ==
    /\ inflight' = Leave(from)
    /\ completed' = completed + 1
    /\ Becomes(CycleEndOutcome(fs))

\* runCycle(), the catch block with a consumer for 'error': emit('error'),
\* logEvent, state = 'idle', then scheduleNextCycle().
CycleErrorOutcome(fs) ==
    ScheduleNextCycle(
        [LogEvent(Emit(Writable(Here, fs), "error", "error"), "error")
            EXCEPT !.state = "idle"],
        cycleCount)

\* runCycle(), the catch block: emit('error') throws out of the handler when
\* nobody listens, before anything else is done.
CycleError(from, fs) ==
    /\ inflight' = Leave(from)
    /\ IF hasErrorListener
       THEN /\ completed' = completed + 1
            /\ Becomes(CycleErrorOutcome(fs))
       ELSE /\ Silent
            /\ UNCHANGED <<state, timerArmed, strayTimers, completed>>

\* runCycle(), balance below the floor: state = 'paused', emit('paused'),
\* logEvent of type 'balance_paused', return.
LowBalanceOutcome(fs) ==
    LogEvent(Emit(Writable(Loop("paused", timerArmed, strayTimers), fs),
                  "paused", "balance_paused"), "balance_paused")

\* wallet.getSOLBalance() settles: at or above the floor, below it (nothing
\* scheduled), or with an error.
BalanceReturns(outcome, fs) ==
    /\ inflight["balance"] > 0
    /\ lastStep' = Step("balance", outcome)
    /\ CASE outcome = "ok" ->
              /\ inflight' = Advance("balance", "observe")
              /\ Silent
              /\ UNCHANGED <<state, timerArmed, strayTimers, completed,
                             pausedBy>>
         [] outcome = "low" ->
              /\ inflight' = Leave("balance")
              /\ Becomes(LowBalanceOutcome(fs))
              /\ pausedBy' = "balance"
              /\ UNCHANGED completed
         [] outcome = "throw" ->
              /\ CycleError("balance", fs)
              /\ UNCHANGED pausedBy
    /\ UNCHANGED <<agentConfig, cycleCount, stopCalled, startThrew>>
    /\ UNCHANGED <<walletVars, peerVars, keyVars, histVars, dexVars>>
    /\ UNCHANGED <<diskVars, tradeVars, oracleVars>>

\* observe() settles.
ObserveReturns(ok, fs) ==
    /\ inflight["observe"] > 0
    /\ lastStep' = Step("observe", IF ok THEN "ok" ELSE "throw")
    /\ IF ok
       THEN /\ inflight' = Advance("observe", "think")
            /\ Silent
            /\ UNCHANGED <<state, timerArmed, strayTimers, completed>>
       ELSE CycleError("observe", fs)
    /\ UNCHANGED <<agentConfig, cycleCount, stopCalled, startThrew, pausedBy>>
    /\ UNCHANGED <<walletVars, peerVars, keyVars, histVars, dexVars>>
    /\ UNCHANGED <<diskVars, tradeVars, oracleVars>>

\* runCycle(), think() returned an action: state = 'acting', emit('action'),
\* logEvent, act() awaited.
ActionOutcome(fs) ==
    LogEvent(Emit(Writable(Loop("acting", timerArmed, strayTimers), fs),
                  "action", "action"), "action")

\* think() settles: with an action, with null (the cycle ends), or with an
\* error.
ThinkReturns(outcome, fs) ==
    /\ inflight["think"] > 0
    /\ lastStep' = Step("think", outcome)
    /\ CASE outcome = "action" ->
              /\ inflight' = Advance("think", "act")
              /\ Becomes(ActionOutcome(fs))
              /\ UNCHANGED completed
         [] outcome = "null" -> CycleEnd("think", fs)
         [] outcome = "throw" -> CycleError("think", fs)
    /\ UNCHANGED <<agentConfig, cycleCount, stopCalled, startThrew, pausedBy>>
    /\ UNCHANGED <<walletVars, peerVars, keyVars, histVars, dexVars>>
    /\ UNCHANGED <<diskVars, tradeVars, oracleVars>>

\* act() settles.
ActReturns(ok, fs) ==
    /\ inflight["act"] > 0
    /\ lastStep' = Step("act", IF ok THEN "ok" ELSE "throw")
    /\ IF ok THEN CycleEnd("act", fs) ELSE CycleError("act", fs)
    /\ UNCHANGED <<agentConfig, cycleCount, stopCalled, startThrew, pausedBy>>
    /\ UNCHANGED <<walletVars, peerVars, keyVars, histVars, dexVars>>
    /\ UNCHANGED <<diskVars, tradeVars, oracleVars>>

\* Nothing has been called yet.
AgentQuiet ==
    /\ lastStep = Step("none", "none")
    /\ lastEvents = <<>>
    /\ lastLog = <<>>
    /\ pausedBy = "none"

\* The state after new BaseAgent(config).
AgentInit ==
    /\ state = "idle"
    /\ cycleCount = 0
    /\ maxCycles \in 0..MaxCyclesCfg
    /\ minBalanceSet \in BOOLEAN
    /\ hasErrorListener \in BOOLEAN
    /\ timerArmed = FALSE
    /\ strayTimers = 0
    /\ inflight = NoneInFlight
    /\ completed = 0
    /\ stopCalled = FALSE
    /\ startThrew = FALSE
    /\ AgentQuiet

\* An agent that was constructed and is never started.
AgentAtRest ==
    /\ state = "idle"
    /\ cycleCount = 0
    /\ maxCycles = 0
    /\ minBalanceSet = FALSE
    /\ hasErrorListener = TRUE
    /\ timerArmed = FALSE
    /\ strayTimers = 0
    /\ inflight = NoneInFlight
    /\ completed = 0
    /\ stopCalled = FALSE
    /\ startThrew = FALSE
    /\ AgentQuiet

\* A wallet that was constructed and is never called.
WalletAtRest ==
    /\ WalletInit
    /\ maxSpendPerTx = 0
    /\ maxDailySpend = 0

AgentNext ==
    \/ \E fs \in BOOLEAN : Start(fs)
    \/ \E fs \in BOOLEAN : Pause(fs)
    \/ \E fs \in BOOLEAN : Resume(fs)
    \/ \E fs \in BOOLEAN : Stop(fs)
    \/ \E current \in BOOLEAN, fs \in BOOLEAN : TimerFires(current, fs)
    \/ \E o \in {"ok", "low", "throw"}, fs \in BOOLEAN : BalanceReturns(o, fs)
    \/ \E ok \in BOOLEAN, fs \in BOOLEAN : ObserveReturns(ok, fs)
    \/ \E o \in {"action", "null", "throw"}, fs \in BOOLEAN : ThinkReturns(o, fs)
    \/ \E ok \in BOOLEAN, fs \in BOOLEAN : ActReturns(ok, fs)

\* -------------------------------------------------------------- KeyManager
\*
\* AES-256-GCM and SHA-256 are kept as terms: a ciphertext names the key, the
\* nonce and the plaintext that made it, an authentication tag names the key,
\* the nonce and the ciphertext it was computed over, and a digest names its
\* input. Decryption opens a ciphertext only after the tag it is given equals
\* the tag of what it is given. A keypair is its seed and the public key that
\* belongs to the seed.

Kms == {1, 2}

DefaultSecret == "default-dev-secret-change-me!!"

\* The secrets a KeyManager is constructed with; "" is a secret that is not
\* given or is empty. ENCRYPTION_SECRET is not set.
Secrets == {"", DefaultSecret, "test-secret-key-32-chars-exactly!"}

Ivs == 1..MaxIv

\* constructor: secret || process.env.ENCRYPTION_SECRET || the default.
RawSecret(secret) == IF secret = "" THEN DefaultSecret ELSE secret

\* constructor: crypto.createHash('sha256').update(rawSecret).digest().
EncryptionKey(secret) == <<"sha256", RawSecret(secret)>>

PublicOf(seed) == <<"ed25519", seed>>

\* Keypair.generate(): 64 bytes of secret key, seed then public key.
KeypairOf(seed) ==
    [secretKey |-> <<seed, PublicOf(seed)>>, publicKey |-> PublicOf(seed)]

NoKeypair == KeypairOf(0)

\* Keypair.fromSecretKey: throws unless the public half belongs to the seed.
ValidSecretKey(secretKey) == secretKey[2] = PublicOf(secretKey[1])

\* cipher.update(privateKeyBytes), cipher.final().
Encrypt(key, iv, plain) == [key |-> key, iv |-> iv, plain |-> plain]

\* cipher.getAuthTag().
AuthTagOf(key, iv, ct) == [key |-> key, iv |-> iv, ct |-> ct]

\* Bytes that no store call wrote: an altered nonce, ciphertext and tag.
AlteredIv == MaxIv + 1
AlteredCt == Encrypt(<<"none", "">>, AlteredIv, NoKeypair.secretKey)
AlteredTag == AuthTagOf(<<"none", "">>, AlteredIv, AlteredCt)

NoBlob == [exists |-> FALSE, iv |-> AlteredIv, tag |-> AlteredTag, ct |-> AlteredCt]
NoMeta == [exists |-> FALSE, publicKey |-> NoKeypair.publicKey]

\* A storeKey that encrypts the first half of the secret key only.
KeyBlobSeedOnly(secret, iv, keypair) ==
    LET key == EncryptionKey(secret)
        ct == Encrypt(key, iv, <<keypair.secretKey[1], NoKeypair.publicKey>>)
    IN  [exists |-> TRUE, iv |-> iv, tag |-> AuthTagOf(key, iv, ct), ct |-> ct]

\* storeKey: the file <agentId>.key, iv(16) | authTag(16) | ciphertext.
KeyBlob(secret, iv, keypair) ==
    LET key == EncryptionKey(secret)
        ct == Encrypt(key, iv, keypair.secretKey)
    IN  [exists |-> TRUE, iv |-> iv, tag |-> AuthTagOf(key, iv, ct), ct |-> ct]

\* storeKey: the file <agentId>.meta.json.
KeyMeta(keypair) == [exists |-> TRUE, publicKey |-> keypair.publicKey]

\* hasKey: fs.existsSync(this.keyPath(agentId)).
HasKey(files, agentId) == files[agentId].exists

\* loadKey: not found without the key file; decipher.final() throws unless
\* the tag read from the file authenticates the nonce and ciphertext read
\* from the file under this KeyManager's key; Keypair.fromSecretKey.
LoadKey(secret, blob) ==
    LET key == EncryptionKey(secret) IN
    IF ~blob.exists
    THEN [status |-> "not_found", keypair |-> NoKeypair]
    ELSE IF blob.tag # AuthTagOf(key, blob.iv, blob.ct)
    THEN [status |-> "integrity_error", keypair |-> NoKeypair]
    ELSE IF ~ValidSecretKey(blob.ct.plain)
    THEN [status |-> "bad_secret_key", keypair |-> NoKeypair]
    ELSE [status |-> "ok", keypair |-> KeypairOf(blob.ct.plain[1])]

\* deleteKey: for both paths, if (fs.existsSync(f)) fs.unlinkSync(f).
DeleteKeyBlobOnly(files, agentId) ==
    [key |-> [files.key EXCEPT ![agentId] = NoBlob], meta |-> files.meta]

DeleteKey(files, agentId) ==
    [key |-> [files.key EXCEPT ![agentId] =
                 IF files.key[agentId].exists THEN NoBlob ELSE @],
     meta |-> [files.meta EXCEPT ![agentId] =
                 IF files.meta[agentId].exists THEN NoMeta ELSE @]]

NoKeyCall ==
    [op |-> "none", km |-> 1, id |-> WalletId, status |-> "none",
     keypair |-> NoKeypair, inst |-> 0, constructed |-> FALSE,
     hadKey |-> FALSE, hadMeta |-> FALSE]

KeyCall(op, km, id, status, keypair) ==
    [NoKeyCall EXCEPT !.op = op, !.km = km, !.id = id, !.status = status,
                      !.keypair = keypair,
                      !.hadKey = keyFile[id].exists,
                      !.hadMeta = metaFile[id].exists]

NoStored == [live |-> FALSE, secret |-> "", blob |-> NoBlob, keypair |-> NoKeypair]

KeyOpsLeft == keyOps < MaxKeyOps

\* keyManager.storeKey(agentId, Keypair.generate()) called on the KeyManager.
StoreKeyCall(km, agentId, iv) ==
    /\ KeyOpsLeft
    /\ nextSeed < MaxSeeds
    /\ LET keypair == KeypairOf(nextSeed + 1)
           blob == KeyBlob(kmSecret[km], iv, keypair)
       IN  /\ keyFile' = [keyFile EXCEPT ![agentId] = blob]
           /\ metaFile' = [metaFile EXCEPT ![agentId] = KeyMeta(keypair)]
           /\ stored' = [stored EXCEPT ![agentId] =
                  [live |-> TRUE, secret |-> kmSecret[km], blob |-> blob,
                   keypair |-> keypair]]
           /\ lastKey' = KeyCall("store", km, agentId, "ok", keypair)
    /\ nextSeed' = nextSeed + 1
    /\ keyOps' = keyOps + 1
    /\ UNCHANGED <<kmSecret, wallets, nextInst, snap, firstWallet, firstInst>>
    /\ UNCHANGED <<walletVars, agentVars, peerVars, histVars, dexVars>>
    /\ UNCHANGED <<diskVars, tradeVars, oracleVars>>

\* keyManager.loadKey(agentId).
LoadKeyCall(km, agentId) ==
    /\ KeyOpsLeft
    /\ LET r == LoadKey(kmSecret[km], keyFile[agentId])
       IN  lastKey' = KeyCall("load", km, agentId, r.status, r.keypair)
    /\ keyOps' = keyOps + 1
    /\ UNCHANGED <<keyFile, metaFile, kmSecret, wallets, nextSeed, nextInst,
                   snap, stored, firstWallet, firstInst>>
    /\ UNCHANGED <<walletVars, agentVars, peerVars, histVars, dexVars>>
    /\ UNCHANGED <<diskVars, tradeVars, oracleVars>>

\* keyManager.deleteKey(agentId).
DeleteKeyCall(km, agentId) ==
    /\ KeyOpsLeft
    /\ LET after == DeleteKey([key |-> keyFile, meta |-> metaFile], agentId)
       IN  /\ keyFile' = after.key
           /\ metaFile' = after.meta
    /\ stored' = [stored EXCEPT ![agentId] = NoStored]
    /\ firstWallet' = [firstWallet EXCEPT ![agentId] = NoKeypair.publicKey]
    /\ lastKey' = KeyCall("delete", km, agentId, "ok", NoKeypair)
    /\ keyOps' = keyOps + 1
    /\ UNCHANGED <<kmSecret, wallets, nextSeed, nextInst, snap, firstInst>>
    /\ UNCHANGED <<walletVars, agentVars, peerVars, histVars, dexVars>>
    /\ UNCHANGED <<diskVars, tradeVars, oracleVars>>

\* Something other than the KeyManager rewrites bytes of a key file: its
\* nonce, its tag or its ciphertext.
Tamper(agentId, part) ==
    /\ KeyOpsLeft
    /\ keyFile[agentId].exists
    /\ \/ /\ part = "iv"
          /\ keyFile' = [keyFile EXCEPT ![agentId].iv = AlteredIv]
       \/ /\ part = "tag"
          /\ keyFile' = [keyFile EXCEPT ![agentId].tag = AlteredTag]
       \/ /\ part = "ct"
          /\ keyFile' = [keyFile EXCEPT ![agentId].ct = AlteredCt]
    /\ keyFile' # keyFile
    /\ lastKey' = KeyCall("tamper", 1, agentId, "ok", NoKeypair)
    /\ keyOps' = keyOps + 1
    /\ UNCHANGED <<metaFile, kmSecret, wallets, nextSeed, nextInst, snap,
                   stored, firstWallet, firstInst>>
    /\ UNCHANGED <<walletVars, agentVars, peerVars, histVars, dexVars>>
    /\ UNCHANGED <<diskVars, tradeVars, oracleVars>>

\* Something other than the KeyManager removes one of an agent's two files.
LoseFile(agentId, which) ==
    /\ KeyOpsLeft
    /\ \/ /\ which = "key"
          /\ keyFile[agentId].exists
          /\ keyFile' = [keyFile EXCEPT ![agentId] = NoBlob]
          /\ UNCHANGED metaFile
       \/ /\ which = "meta"
          /\ metaFile[agentId].exists
          /\ metaFile' = [metaFile EXCEPT ![agentId] = NoMeta]
          /\ UNCHANGED keyFile
    /\ lastKey' = KeyCall("lose", 1, agentId, "ok", NoKeypair)
    /\ keyOps' = keyOps + 1
    /\ UNCHANGED <<kmSecret, wallets, nextSeed, nextInst, snap, stored,
                   firstWallet, firstInst>>
    /\ UNCHANGED <<walletVars, agentVars, peerVars, histVars, dexVars>>
    /\ UNCHANGED <<diskVars, tradeVars, oracleVars>>

\* ---------------------------------------------------------- WalletRegistry
\*
\* Registry r is built over KeyManager r. this.wallets is a Map: its entries
\* in insertion order, here a sequence of (agentId, wallet).

Index(entries, agentId) ==
    {i \in 1..Len(entries) : entries[i].agentId = agentId}

\* A map that never finds a key.
HasNever(entries, agentId) == FALSE

\* this.wallets.has(agentId).
Has(entries, agentId) == Index(entries, agentId) # {}

\* this.wallets.get(agentId).
Get(entries, agentId) == entries[CHOOSE i \in Index(entries, agentId) : TRUE]

\* this.wallets.delete(agentId).
MapDelete(entries, agentId) ==
    SelectSeq(entries, LAMBDA e : e.agentId # agentId)

\* this.wallets.set(agentId, wallet).
MapSet(entries, agentId, wallet) ==
    IF Has(entries, agentId)
    THEN [i \in 1..Len(entries) |->
             IF entries[i].agentId = agentId THEN wallet ELSE entries[i]]
    ELSE Append(entries, wallet)

\* count(): this.wallets.size.
Count(r) == Len(wallets[r])

\* A constructor that generates a keypair when the stored one does not load.
ConstructKeypairFallback(secret, agentId) ==
    LET r == LoadKey(secret, keyFile[agentId])
    IN  IF r.status = "ok"
        THEN [status |-> r.status, keypair |-> r.keypair, generated |-> FALSE]
        ELSE [status |-> "ok", keypair |-> KeypairOf(nextSeed + 1),
              generated |-> TRUE]

\* The AgentWallet constructor's keypair: the stored one when hasKey says
\* there is one (loadKey may throw), otherwise a generated one, stored.
ConstructKeypair(secret, agentId) ==
    IF HasKey(keyFile, agentId)
    THEN LET r == LoadKey(secret, keyFile[agentId])
         IN  [status |-> r.status, keypair |-> r.keypair, generated |-> FALSE]
    ELSE [status |-> "ok", keypair |-> KeypairOf(nextSeed + 1),
          generated |-> TRUE]

\* getOrCreate(agentId): the registered wallet, or a new AgentWallet whose
\* constructor loads the stored keypair or generates and stores one; a
\* constructor that throws leaves the registry as it was.
GetOrCreate(r, agentId, iv) ==
    /\ KeyOpsLeft
    /\ IF Has(wallets[r], agentId)
       THEN LET w == Get(wallets[r], agentId)
            IN  /\ lastKey' = [KeyCall("getOrCreate", r, agentId, "ok",
                                       NoKeypair)
                                  EXCEPT !.keypair.publicKey = w.publicKey,
                                         !.inst = w.inst]
                /\ firstWallet' =
                       IF firstWallet[agentId] = NoKeypair.publicKey
                       THEN [firstWallet EXCEPT ![agentId] = w.publicKey]
                       ELSE firstWallet
                /\ UNCHANGED <<keyFile, metaFile, wallets, nextSeed, nextInst,
                               stored, firstInst>>
       ELSE LET c == ConstructKeypair(kmSecret[r], agentId)
                wallet == [agentId |-> agentId, inst |-> nextInst + 1,
                           publicKey |-> c.keypair.publicKey]
                blob == KeyBlob(kmSecret[r], iv, c.keypair)
            IN  /\ c.generated => nextSeed < MaxSeeds
                /\ IF c.status = "ok"
                   THEN /\ wallets' = [wallets EXCEPT ![r] =
                                          MapSet(@, agentId, wallet)]
                        /\ nextInst' = nextInst + 1
                        /\ firstWallet' =
                               IF firstWallet[agentId] = NoKeypair.publicKey
                               THEN [firstWallet EXCEPT ![agentId] =
                                        wallet.publicKey]
                               ELSE firstWallet
                        /\ firstInst' =
                               IF firstInst[r][agentId] = 0
                               THEN [firstInst EXCEPT ![r][agentId] =
                                        wallet.inst]
                               ELSE firstInst
                        /\ lastKey' =
                               [KeyCall("getOrCreate", r, agentId, "ok",
                                        c.keypair)
                                   EXCEPT !.inst = wallet.inst,
                                          !.constructed = TRUE]
                   ELSE /\ UNCHANGED <<wallets, nextInst, firstWallet,
                                       firstInst>>
                        /\ lastKey' = KeyCall("getOrCreate", r, agentId,
                                              c.status, NoKeypair)
                /\ IF c.generated
                   THEN /\ nextSeed' = nextSeed + 1
                        /\ keyFile' = [keyFile EXCEPT ![agentId] = blob]
                        /\ metaFile' = [metaFile EXCEPT ![agentId] =
                                           KeyMeta(c.keypair)]
                        /\ stored' = [stored EXCEPT ![agentId] =
                               [live |-> TRUE, secret |-> kmSecret[r],
                                blob |-> blob, keypair |-> c.keypair]]
                   ELSE UNCHANGED <<nextSeed, keyFile, metaFile, stored>>
    /\ keyOps' = keyOps + 1
    /\ UNCHANGED <<kmSecret, snap>>
    /\ UNCHANGED <<walletVars, agentVars, peerVars, histVars, dexVars>>
    /\ UNCHANGED <<diskVars, tradeVars, oracleVars>>

\* remove(agentId).
Remove(r, agentId) ==
    /\ KeyOpsLeft
    /\ Has(wallets[r], agentId)
    /\ wallets' = [wallets EXCEPT ![r] = MapDelete(@, agentId)]
    /\ lastKey' = KeyCall("remove", r, agentId, "ok", NoKeypair)
    /\ keyOps' = keyOps + 1
    /\ UNCHANGED <<keyFile, metaFile, kmSecret, nextSeed, nextInst, snap,
                   stored, firstWallet, firstInst>>
    /\ UNCHANGED <<walletVars, agentVars, peerVars, histVars, dexVars>>
    /\ UNCHANGED <<diskVars, tradeVars, oracleVars>>

NoSnap == [pending |-> FALSE, reg |-> 1, wallets |-> <<>>, status |-> "none",
           results |-> <<>>]

\* snapshotBalances up to its await: wallets = this.getAll().
SnapshotBalances(r) ==
    /\ KeyOpsLeft
    /\ ~snap.pending
    /\ snap' = [NoSnap EXCEPT !.pending = TRUE, !.reg = r,
                              !.wallets = wallets[r], !.status = "pending"]
    /\ lastKey' = KeyCall("snapshotBalances", r, WalletId, "pending", NoKeypair)
    /\ keyOps' = keyOps + 1
    /\ UNCHANGED <<keyFile, metaFile, kmSecret, wallets, nextSeed, nextInst,
                   stored, firstWallet, firstInst>>
    /\ UNCHANGED <<walletVars, agentVars, peerVars, histVars, dexVars>>
    /\ UNCHANGED <<diskVars, tradeVars, oracleVars>>

\* getMultipleAccountsInfo settles: wallets.map((w, i) => ...), or the
\* rejection propagates.
SnapshotReturns(ok) ==
    /\ snap.pending
    /\ snap' = IF ok
               THEN [snap EXCEPT !.pending = FALSE, !.status = "ok",
                        !.results = [i \in 1..Len(snap.wallets) |->
                                        snap.wallets[i].agentId]]
               ELSE [snap EXCEPT !.pending = FALSE, !.status = "error"]
    /\ UNCHANGED <<keyFile, metaFile, kmSecret, wallets, nextSeed, nextInst,
                   keyOps, lastKey, stored, firstWallet, firstInst>>
    /\ UNCHANGED <<walletVars, agentVars, peerVars, histVars, dexVars>>
    /\ UNCHANGED <<diskVars, tradeVars, oracleVars>>

KeysEmpty ==
    /\ keyFile = [a \in AgentIds |-> NoBlob]
    /\ metaFile = [a \in AgentIds |-> NoMeta]
    /\ wallets = [r \in Kms |-> <<>>]
    /\ nextSeed = 0
    /\ nextInst = 0
    /\ keyOps = 0
    /\ lastKey = NoKeyCall
    /\ snap = NoSnap
    /\ stored = [a \in AgentIds |-> NoStored]
    /\ firstWallet = [a \in AgentIds |-> NoKeypair.publicKey]
    /\ firstInst = [r \in Kms |-> [a \in AgentIds |-> 0]]

\* Two KeyManagers over one empty .agent-keys directory, each constructed
\* with a secret.
KeysInit ==
    /\ kmSecret \in [Kms -> Secrets]
    /\ KeysEmpty

\* A deployment whose key store and registries are never touched.
KeysAtRest ==
    /\ kmSecret = [k \in Kms |-> DefaultSecret]
    /\ KeysEmpty

KeyStoreNext ==
    \/ \E km \in Kms, a \in AgentIds, iv \in Ivs : StoreKeyCall(km, a, iv)
    \/ \E km \in Kms, a \in AgentIds : LoadKeyCall(km, a)
    \/ \E km \in Kms, a \in AgentIds : DeleteKeyCall(km, a)
    \/ \E a \in AgentIds, part \in {"iv", "tag", "ct"} : Tamper(a, part)
    \/ \E a \in AgentIds, which \in {"key", "meta"} : LoseFile(a, which)

RegistryNext ==
    \/ \E r \in Kms, a \in AgentIds, iv \in Ivs : GetOrCreate(r, a, iv)
    \/ \E r \in Kms, a \in AgentIds : Remove(r, a)
    \/ \E km \in Kms, a \in AgentIds : DeleteKeyCall(km, a)
    \/ \E a \in AgentIds, part \in {"iv", "tag", "ct"} : Tamper(a, part)
    \/ \E r \in Kms : SnapshotBalances(r)
    \/ \E ok \in BOOLEAN : SnapshotReturns(ok)

\* ------------------------------------- AgentWallet: getTransactionHistory
\*
\* this.txHistory is an array of references to record objects, and a record
\* is referred to by its position in it. The array that the caller of
\* getTransactionHistory holds is another array of the same references.

\* getTransactionHistory(): return [...this.txHistory].
GetTransactionHistory ==
    /\ txHistory # <<>>
    /\ handed' = [given |-> TRUE, list |-> [i \in 1..Len(txHistory) |-> i]]
    /\ UNCHANGED <<walletVars, agentVars, peerVars, keyVars, dexVars>>
    /\ UNCHANGED <<diskVars, tradeVars, oracleVars>>

\* The caller changes the array it was given: it drops its first element.
CallerEditsList ==
    /\ handed.given
    /\ handed.list # <<>>
    /\ handed' = [handed EXCEPT !.list = Tail(@)]
    /\ UNCHANGED <<walletVars, agentVars, peerVars, keyVars, dexVars>>
    /\ UNCHANGED <<diskVars, tradeVars, oracleVars>>

\* The caller assigns the status of the record that element i of its array
\* refers to.
CallerEditsRecord(i, status) ==
    /\ handed.given
    /\ i \in 1..Len(handed.list)
    /\ txHistory[handed.list[i]].status # status
    /\ txHistory' = [txHistory EXCEPT ![handed.list[i]].status = status]
    /\ UNCHANGED <<maxSpendPerTx, maxDailySpend, today, spendLedger, ledgerFile,
                   wpc, callOp, callAmount, callResult, callNet, callChecked,
                   callSubmitted, callSubmits, attempts, nCalls, confirmedSum>>
    /\ UNCHANGED <<handed, agentVars, peerVars, keyVars, dexVars>>
    /\ UNCHANGED <<diskVars, tradeVars, oracleVars>>

HistoryNext ==
    \/ \E v \in BOOLEAN, a \in Amounts : SendSOL(v, a)
    \/ \E ok \in BOOLEAN : SolPrepare(ok)
    \/ \E ok \in BOOLEAN : SolSimulate(ok)
    \/ \E ok \in BOOLEAN : SolSend(ok)
    \/ \E ok \in BOOLEAN : SolConfirm(ok)
    \/ SignAndSend
    \/ \E ok \in BOOLEAN : CustomSend(ok)
    \/ Restart
    \/ GetTransactionHistory
    \/ CallerEditsList
    \/ \E i \in 1..MaxCalls, s \in {"confirmed", "failed"} : CallerEditsRecord(i, s)

\* ---------------------------------------------------------- DexAdapter
\*
\* One adapter call at a time, made on a JupiterAdapter or on a SimulatedDex
\* over the wallet modelled above. The adapter calls the wallet and resumes
\* when the wallet's call has settled.

ZeroStats == [tradeCount |-> 0, totalBuyVolume |-> 0, totalSellVolume |-> 0]

\* getStats() of either adapter.
GetStats(c) ==
    [tradeCount |-> c.tradeCount, totalBuyVolume |-> c.totalBuyVolume,
     totalSellVolume |-> c.totalSellVolume,
     netFlow |-> c.totalBuyVolume - c.totalSellVolume]

\* this.totalBuyVolume += amountSOL; this.tradeCount++ (and for a sell).
Counted(c, op, amountSOL) ==
    IF op = "buy"
    THEN [c EXCEPT !.totalBuyVolume = @ + amountSOL, !.tradeCount = @ + 1]
    ELSE [c EXCEPT !.totalSellVolume = @ + amountSOL, !.tradeCount = @ + 1]

NoDexCall ==
    [adapter |-> "none", op |-> "none", amount |-> 0, result |-> "none",
     failure |-> "none", before |-> GetStats(ZeroStats), mark |-> 0]

\* The adapter whose method is running (or ran last).
StatsNow == GetStats(IF dex.adapter = "jupiter" THEN jup ELSE sim)

\* The bookkeeping of an adapter call that begins.
NewDexCall(adapter, op, amountSOL) ==
    [NoDexCall EXCEPT !.adapter = adapter, !.op = op, !.amount = amountSOL,
                      !.result = "pending",
                      !.before = GetStats(IF adapter = "jupiter"
                                          THEN jup ELSE sim),
                      !.mark = nCalls]

BeginDexCall ==
    /\ dpc = "idle"
    /\ wpc = "idle"
    /\ dexCalls < MaxTrades
    /\ dexCalls' = dexCalls + 1

\* The wallet call the adapter is waiting for has not been made yet.
WalletNotCalled == wpc = "idle" /\ nCalls = dex.mark

\* The wallet call the adapter was waiting for has settled.
WalletSettled == wpc = "idle" /\ nCalls > dex.mark

\* JupiterAdapter: the catch block of buy and of sell, rethrowing.
JupiterCatchRethrow(what) ==
    /\ dex' = [dex EXCEPT !.result = "raised", !.failure = what]
    /\ dpc' = "idle"
    /\ UNCHANGED <<jup, sim, dexCalls>>

\* JupiterAdapter: the catch block of buy and of sell: logger.warn, return null.
JupiterCatch(what) ==
    /\ dex' = [dex EXCEPT !.result = "null", !.failure = what]
    /\ dpc' = "idle"
    /\ UNCHANGED <<jup, sim, dexCalls>>

\* JupiterAdapter.buy(amountSOL), up to the fetch of this.quote.
JupiterBuy(amountSOL) ==
    /\ BeginDexCall
    /\ dex' = NewDexCall("jupiter", "buy", amountSOL)
    /\ dpc' = "jup_quote"
    /\ UNCHANGED <<jup, sim>>
    /\ UNCHANGED <<walletVars, agentVars, peerVars, keyVars, histVars>>
    /\ UNCHANGED <<diskVars, tradeVars, oracleVars>>

\* JupiterAdapter.sell(amountSOL), up to the fetch of this.quote.
JupiterSell(amountSOL) ==
    /\ BeginDexCall
    /\ dex' = NewDexCall("jupiter", "sell", amountSOL)
    /\ dpc' = "jup_quote"
    /\ UNCHANGED <<jup, sim>>
    /\ UNCHANGED <<walletVars, agentVars, peerVars, keyVars, histVars>>
    /\ UNCHANGED <<diskVars, tradeVars, oracleVars>>

\* quote: the fetch and res.json() settle; a rejected fetch, a status that is
\* not ok and a body that does not parse all throw.
JupQuote(ok) ==
    /\ dpc = "jup_quote"
    /\ IF ok
       THEN dpc' = "jup_swap" /\ UNCHANGED <<jup, sim, dex, dexCalls>>
       ELSE JupiterCatch("quote")
    /\ UNCHANGED <<walletVars, agentVars, peerVars, keyVars, histVars>>
    /\ UNCHANGED <<diskVars, tradeVars, oracleVars>>

\* swap: the fetch and res.json() settle, then Transaction.from decodes the
\* transaction; the request may fail and the decoding may throw.
JupSwap(outcome) ==
    /\ dpc = "jup_swap"
    /\ IF outcome = "ok"
       THEN dpc' = "jup_sign" /\ UNCHANGED <<jup, sim, dex, dexCalls>>
       ELSE JupiterCatch(outcome)
    /\ UNCHANGED <<walletVars, agentVars, peerVars, keyVars, histVars>>
    /\ UNCHANGED <<diskVars, tradeVars, oracleVars>>

\* swap: this.wallet.signAndSend(tx).
JupSignAndSend ==
    /\ dpc = "jup_sign"
    /\ WalletNotCalled
    /\ SignAndSend

\* swap returns the signature and the counters are updated, or signAndSend
\* threw and the catch block runs.
JupSwapReturns ==
    /\ dpc = "jup_sign"
    /\ WalletSettled
    /\ IF callResult = "ok"
       THEN /\ jup' = Counted(jup, dex.op, dex.amount)
            /\ dex' = [dex EXCEPT !.result = "sig"]
            /\ dpc' = "idle"
            /\ UNCHANGED <<sim, dexCalls>>
       ELSE JupiterCatch("sign")
    /\ UNCHANGED <<walletVars, agentVars, peerVars, keyVars, histVars>>
    /\ UNCHANGED <<diskVars, tradeVars, oracleVars>>

\* SimulatedDex.buy: balance < amountSOL + MIN_TRADE_SOL, the balance in
\* thousandths of SOL (MIN_TRADE_SOL is one of them).
Insufficient(balanceMilli, amountSOL) == balanceMilli < amountSOL * 1000 + 1

\* The balances getSOLBalance may return, in thousandths of SOL: each whole
\* amount, and each with the buffer on top.
BalancesMilli == {a * 1000 + f : a \in 0..MaxAmount, f \in {0, 1}}

\* SimulatedDex.buy(amountSOL), up to this.wallet.getSOLBalance().
SimBuy(amountSOL) ==
    /\ BeginDexCall
    /\ dex' = NewDexCall("simulated", "buy", amountSOL)
    /\ dpc' = "sim_balance"
    /\ UNCHANGED <<jup, sim>>
    /\ UNCHANGED <<walletVars, agentVars, peerVars, keyVars, histVars>>
    /\ UNCHANGED <<diskVars, tradeVars, oracleVars>>

\* buy: this.wallet.getSOLBalance().
SimGetSOLBalance ==
    /\ dpc = "sim_balance"
    /\ WalletNotCalled
    /\ GetSOLBalance

\* buy: the balance is back, or getSOLBalance threw; the await is outside the
\* try block. With enough balance the next thing is the transfer.
SimBalanceReturns(balanceMilli) ==
    /\ dpc = "sim_balance"
    /\ WalletSettled
    /\ IF callResult # "ok"
       THEN /\ dex' = [dex EXCEPT !.result = "raised", !.failure = "balance"]
            /\ dpc' = "idle"
       ELSE IF Insufficient(balanceMilli, dex.amount)
       THEN /\ dex' = [dex EXCEPT !.result = "null", !.failure = "insufficient"]
            /\ dpc' = "idle"
       ELSE /\ dex' = [dex EXCEPT !.mark = nCalls]
            /\ dpc' = "sim_send"
    /\ UNCHANGED <<jup, sim, dexCalls>>
    /\ UNCHANGED <<walletVars, agentVars, peerVars, keyVars, histVars>>
    /\ UNCHANGED <<diskVars, tradeVars, oracleVars>>

\* buy: this.wallet.sendSOL(DEVNET_POOL_ADDRESS, amountSOL).
SimSendSOL ==
    /\ dpc = "sim_send"
    /\ WalletNotCalled
    /\ SendSOL(TRUE, dex.amount)

\* buy: sendSOL returned the signature and the counters are updated, or it
\* threw and the catch block returns null.
SimSendReturns ==
    /\ dpc = "sim_send"
    /\ WalletSettled
    /\ IF callResult = "ok"
       THEN /\ sim' = Counted(sim, "buy", dex.amount)
            /\ dex' = [dex EXCEPT !.result = "sig"]
       ELSE /\ dex' = [dex EXCEPT !.result = "null", !.failure = "transfer"]
            /\ UNCHANGED sim
    /\ dpc' = "idle"
    /\ UNCHANGED <<jup, dexCalls>>
    /\ UNCHANGED <<walletVars, agentVars, peerVars, keyVars, histVars>>
    /\ UNCHANGED <<diskVars, tradeVars, oracleVars>>

\* SimulatedDex.sell(amountSOL): the counters, then return null.
SimSell(amountSOL) ==
    /\ BeginDexCall
    /\ sim' = Counted(sim, "sell", amountSOL)
    /\ dex' = [NewDexCall("simulated", "sell", amountSOL)
                  EXCEPT !.result = "null"]
    /\ dpc' = "idle"
    /\ UNCHANGED jup
    /\ UNCHANGED <<walletVars, agentVars, peerVars, keyVars, histVars>>
    /\ UNCHANGED <<diskVars, tradeVars, oracleVars>>

DexAtRest ==
    /\ jup = ZeroStats
    /\ sim = ZeroStats
    /\ dpc = "idle"
    /\ dex = NoDexCall
    /\ dexCalls = 0

DexInit == DexAtRest

HistAtRest == handed = NoHanded

DexNext ==
    \/ \E a \in Amounts : JupiterBuy(a)
    \/ \E a \in Amounts : JupiterSell(a)
    \/ \E ok \in BOOLEAN : JupQuote(ok)
    \/ \E o \in {"ok", "swap", "decode"} : JupSwap(o)
    \/ JupSignAndSend
    \/ \E ok \in BOOLEAN : CustomSend(ok)
    \/ JupSwapReturns
    \/ \E a \in Amounts : SimBuy(a)
    \/ SimGetSOLBalance
    \/ \E ok \in BOOLEAN : BalRead(ok)
    \/ BalBackoff
    \/ \E b \in BalancesMilli : SimBalanceReturns(b)
    \/ SimSendSOL
    \/ \E ok \in BOOLEAN : SolPrepare(ok)
    \/ \E ok \in BOOLEAN : SolSimulate(ok)
    \/ \E ok \in BOOLEAN : SolSend(ok)
    \/ \E ok \in BOOLEAN : SolConfirm(ok)
    \/ \E a \in Amounts : SimSell(a)

\* start() called for the first time, by the owner of the loop.
FirstStart(fs) ==
    /\ lastStep = Step("none", "none")
    /\ Start(fs)

\* A consumer subscribes to 'error' (agent.on), or the last one that had
\* unsubscribes (agent.off).
Subscribe(on) ==
    /\ hasErrorListener # on
    /\ hasErrorListener' = on
    /\ UNCHANGED <<state, cycleCount, maxCycles, minBalanceSet, timerArmed,
                   strayTimers, inflight, completed, stopCalled, startThrew,
                   lastStep, lastEvents, lastLog, pausedBy>>
    /\ UNCHANGED <<walletVars, peerVars, keyVars, histVars, dexVars>>
    /\ UNCHANGED <<diskVars, tradeVars, oracleVars>>

\* What the loop does by itself: a pending timer fires, an await settles.
LoopProgress ==
    \/ \E current \in BOOLEAN, fs \in BOOLEAN : TimerFires(current, fs)
    \/ \E ok \in BOOLEAN, fs \in BOOLEAN : ObserveReturns(ok, fs)
    \/ \E o \in {"action", "null", "throw"}, fs \in BOOLEAN : ThinkReturns(o, fs)
    \/ \E ok \in BOOLEAN, fs \in BOOLEAN : ActReturns(ok, fs)

\* A loop that is started once and then left to its timers and its awaits,
\* while consumers come and go.
LoopFairNext ==
    \/ \E fs \in BOOLEAN : FirstStart(fs)
    \/ \E on \in BOOLEAN : Subscribe(on)
    \/ LoopProgress

\* ------------------------------------- KeyManager: the two files of a key

\* listKeys(): one entry per file of the directory that ends in .meta.json.
ListKeys(metas) == {a \in AgentIds : metas[a].exists}

\* getPublicKey(agentId): getMeta throws without the file <agentId>.meta.json.
GetPublicKey(metas, agentId) ==
    IF metas[agentId].exists
    THEN [status |-> "ok", publicKey |-> metas[agentId].publicKey]
    ELSE [status |-> "no_metadata", publicKey |-> NoKeypair.publicKey]

\* storeKey(agentId, Keypair.generate()) in a process that is killed after
\* the key file was written and before the meta file is.
StoreKeyCrash(km, agentId, iv) ==
    /\ KeyOpsLeft
    /\ nextSeed < MaxSeeds
    /\ LET keypair == KeypairOf(nextSeed + 1)
       IN  /\ keyFile' = [keyFile EXCEPT ![agentId] =
                             KeyBlob(kmSecret[km], iv, keypair)]
           /\ lastKey' = KeyCall("store_killed", km, agentId, "killed", keypair)
    /\ stored' = [stored EXCEPT ![agentId] = NoStored]
    /\ nextSeed' = nextSeed + 1
    /\ keyOps' = keyOps + 1
    /\ UNCHANGED <<metaFile, kmSecret, wallets, nextInst, snap, firstWallet,
                   firstInst>>
    /\ UNCHANGED <<walletVars, agentVars, peerVars, histVars, dexVars>>
    /\ UNCHANGED <<diskVars, tradeVars, oracleVars>>

\* deleteKey(agentId) in a process that is killed after the key file was
\* unlinked and before the meta file is.
DeleteKeyCrash(km, agentId) ==
    /\ KeyOpsLeft
    /\ keyFile[agentId].exists
    /\ metaFile[agentId].exists
    /\ keyFile' = [keyFile EXCEPT ![agentId] = NoBlob]
    /\ stored' = [stored EXCEPT ![agentId] = NoStored]
    /\ firstWallet' = [firstWallet EXCEPT ![agentId] = NoKeypair.publicKey]
    /\ lastKey' = KeyCall("delete_killed", km, agentId, "killed", NoKeypair)
    /\ keyOps' = keyOps + 1
    /\ UNCHANGED <<metaFile, kmSecret, wallets, nextSeed, nextInst, snap,
                   firstInst>>
    /\ UNCHANGED <<walletVars, agentVars, peerVars, histVars, dexVars>>
    /\ UNCHANGED <<diskVars, tradeVars, oracleVars>>

KeyFilesNext ==
    \/ \E km \in Kms, a \in AgentIds, iv \in Ivs : StoreKeyCall(km, a, iv)
    \/ \E km \in Kms, a \in AgentIds : DeleteKeyCall(km, a)
    \/ \E km \in Kms, a \in AgentIds, iv \in Ivs : StoreKeyCrash(km, a, iv)
    \/ \E km \in Kms, a \in AgentIds : DeleteKeyCrash(km, a)

\* ------------------------------------------------------------ TradingAgent
\*
\* act(action) of a TradingAgent whose adapter is the one createDex returned
\* over the wallet modelled above. think() returns BUY only when the position
\* it was shown is 'none' and SELL only when it is 'long'.

Prices == 1..MaxPrice

NoAct ==
    [pc |-> "idle", type |-> "none", amount |-> 0, price |-> 0, mark |-> 0,
     result |-> "none"]

\* createDex: DEX_ADAPTER = 'jupiter' gives a JupiterAdapter, anything else
\* a SimulatedDex.
DexKinds == {"simulated", "jupiter"}

\* act(action) with the action think() returned, up to the await of
\* this.dex.buy or this.dex.sell.
ActBegins(type, amountSOL, price) ==
    /\ act.pc = "idle"
    /\ dpc = "idle"
    /\ wpc = "idle"
    /\ dexCalls < MaxTrades
    /\ position = (IF type = "BUY" THEN "none" ELSE "long")
    /\ act' = [NoAct EXCEPT !.pc = "dex", !.type = type, !.amount = amountSOL,
                            !.price = price, !.mark = dexCalls,
                            !.result = "pending"]
    /\ UNCHANGED <<dexKind, position, entryPrice>>
    /\ UNCHANGED <<walletVars, agentVars, peerVars, keyVars, histVars, dexVars>>
    /\ UNCHANGED <<diskVars, oracleVars>>

\* act: this.dex.buy(params.amount) or this.dex.sell(params.amount), on the
\* adapter in use.
ActCallsDex ==
    /\ act.pc = "dex"
    /\ dexCalls = act.mark
    /\ CASE act.type = "BUY" /\ dexKind = "jupiter" -> JupiterBuy(act.amount)
         [] act.type = "BUY" /\ dexKind = "simulated" -> SimBuy(act.amount)
         [] act.type = "SELL" /\ dexKind = "jupiter" -> JupiterSell(act.amount)
         [] act.type = "SELL" /\ dexKind = "simulated" -> SimSell(act.amount)

\* act: the adapter call has settled. When it threw, act throws; otherwise,
\* whatever it returned, the position and the entry price are assigned.
ActSettles ==
    /\ act.pc = "dex"
    /\ dexCalls > act.mark
    /\ dpc = "idle"
    /\ act' = [act EXCEPT !.pc = "idle", !.result = dex.result]
    /\ IF dex.result = "raised"
       THEN UNCHANGED <<position, entryPrice>>
       ELSE /\ position' = (IF act.type = "BUY" THEN "long" ELSE "none")
            /\ entryPrice' = (IF act.type = "BUY" THEN act.price ELSE 0)
    /\ UNCHANGED dexKind
    /\ UNCHANGED <<walletVars, agentVars, peerVars, keyVars, histVars, dexVars>>
    /\ UNCHANGED <<diskVars, oracleVars>>

\* A TradingAgent that is never run.
TradeAtRest ==
    /\ dexKind = "simulated"
    /\ position = "none"
    /\ entryPrice = 0
    /\ act = NoAct

\* The state after new TradingAgent(config).
TradeInit ==
    /\ dexKind \in DexKinds
    /\ position = "none"
    /\ entryPrice = 0
    /\ act = NoAct

TradingNext ==
    \/ \E t \in {"BUY", "SELL"}, a \in Amounts, p \in Prices : ActBegins(t, a, p)
    \/ ActCallsDex
    \/ ActSettles
    \/ \E ok \in BOOLEAN : JupQuote(ok)
    \/ \E o \in {"ok", "swap", "decode"} : JupSwap(o)
    \/ JupSignAndSend
    \/ \E ok \in BOOLEAN : CustomSend(ok)
    \/ JupSwapReturns
    \/ SimGetSOLBalance
    \/ \E ok \in BOOLEAN : BalRead(ok)
    \/ BalBackoff
    \/ \E b \in BalancesMilli : SimBalanceReturns(b)
    \/ SimSendSOL
    \/ \E ok \in BOOLEAN : SolPrepare(ok)
    \/ \E ok \in BOOLEAN : SolSimulate(ok)
    \/ \E ok \in BOOLEAN : SolSend(ok)
    \/ \E ok \in BOOLEAN : SolConfirm(ok)

\* ------------------------------------------------------------ price oracle
\*
\* The object createPriceOracle returns, over a PythPriceOracle and a
\* MockPriceOracle. Prices are whole numbers of the smallest unit the mock
\* oracle rounds to; time is whole numbers of one unit of Date.now().

Times == 0..MaxTime

\* ORACLE_SOURCE, lower-cased, as far as createPriceOracle tells values apart.
OracleSources == {"mock", "pyth"}

\* parseInt(ORACLE_MAX_STALENESS_MS || '0'): not set, or a limit.
StaleLimits == {0, StaleLimit}

\* What a fetch of the Pyth feed comes to: a price and an exponent that are
\* numbers; a response that is not ok or a rejected fetch; a body without
\* them.
FetchOutcomes == {"price", "fetch_failed", "invalid"}

\* The prices a valid Pyth response may carry; the feed may answer 0.
PythPrices == 0..MaxPrice

\* new PythPriceOracle(feedId): lastPrice = null, lastTs = 0.
NoPyth == [has |-> FALSE, lastPrice |-> 0, lastTs |-> 0]

\* new MockPriceOracle(pair): currentPrice = initialPrice.
InitialPrice == MaxPrice

\* The steps that the random walk of the mock oracle takes.
Moves == {0 - MaxPrice, 0 - 1, 0, 1}

Max(a, b) == IF a >= b THEN a ELSE b

NoQuote ==
    [status |-> "none", source |-> "none", fetch |-> "none", price |-> 0,
     from |-> "none", obtained |-> 0, at |-> 0]

\* StaleGuard.assertFresh(timestamp) throws: never when the limit is not
\* positive, otherwise when Date.now() - timestamp is above the limit.
AssertFreshThrows(maxMs, timestamp) ==
    /\ maxMs > 0
    /\ now - timestamp > maxMs

\* PythPriceOracle.getPrice: the price of a valid response, remembered with
\* the time; in the catch block the last price when there is one, else 0.
PythGetPrice(fetch, p) ==
    IF fetch = "price"
    THEN [price |-> p, from |-> "pyth", obtained |-> now,
          pyth |-> [has |-> TRUE, lastPrice |-> p, lastTs |-> now]]
    ELSE IF pyth.has
    THEN [price |-> pyth.lastPrice, from |-> "pyth_cache",
          obtained |-> pyth.lastTs, pyth |-> pyth]
    ELSE [price |-> 0, from |-> "none", obtained |-> now, pyth |-> pyth]

\* MockPriceOracle.getPrice: currentPrice = Math.max(0.01, currentPrice +
\* change), returned rounded to the unit.
MockGetPrice(move) == Max(1, mockPrice + move)

\* The bookkeeping of a getPrice call that ends.
Quoted(fetch, price, from, obtained, threw) ==
    [status |-> IF threw THEN "raised" ELSE "ok", source |-> oracleSource,
     fetch |-> fetch, price |-> IF threw THEN 0 ELSE price, from |-> from,
     obtained |-> obtained, at |-> now]

\* getPrice() of the oracle createPriceOracle returned, from the call to its
\* result. With the Pyth source: pyth.getPrice(); a price above 0 is returned
\* after guard.assertFresh(Date.now()), otherwise the mock oracle's price is.
\* With the mock source: the mock oracle's price after
\* guard.assertFresh(Date.now()).
GetPrice(fetch, p, move) ==
    /\ oracleCalls < MaxQuotes
    /\ oracleCalls' = oracleCalls + 1
    /\ MockGetPrice(move) <= MaxPrice
    /\ IF oracleSource = "pyth"
       THEN LET r == PythGetPrice(fetch, p) IN
            /\ pyth' = r.pyth
            /\ IF r.price > 0
               THEN /\ quote' = Quoted(fetch, r.price, r.from, r.obtained,
                                       AssertFreshThrows(maxStale, now))
                    /\ UNCHANGED mockPrice
               ELSE /\ mockPrice' = MockGetPrice(move)
                    /\ quote' = Quoted(fetch, mockPrice', "mock", now, FALSE)
       ELSE /\ mockPrice' = MockGetPrice(move)
            /\ quote' = Quoted("none", mockPrice', "mock", now,
                               AssertFreshThrows(maxStale, now))
            /\ UNCHANGED pyth
    /\ UNCHANGED <<now, oracleSource, maxStale>>
    /\ UNCHANGED <<walletVars, agentVars, peerVars, keyVars, histVars, dexVars>>
    /\ UNCHANGED <<diskVars, tradeVars>>

\* Time passes.
Tick ==
    /\ now < MaxTime
    /\ now' = now + 1
    /\ UNCHANGED <<oracleSource, maxStale, pyth, mockPrice, quote, oracleCalls>>
    /\ UNCHANGED <<walletVars, agentVars, peerVars, keyVars, histVars, dexVars>>
    /\ UNCHANGED <<diskVars, tradeVars>>

OracleFresh ==
    /\ now = 0
    /\ pyth = NoPyth
    /\ mockPrice = InitialPrice
    /\ quote = NoQuote
    /\ oracleCalls = 0

\* An oracle that is never asked.
OracleAtRest ==
    /\ oracleSource = "mock"
    /\ maxStale = 0
    /\ OracleFresh

\* The state after createPriceOracle(pair), under either source and with or
\* without a staleness limit.
OracleInit ==
    /\ oracleSource \in OracleSources
    /\ maxStale \in StaleLimits
    /\ OracleFresh

OracleNext ==
    \/ \E f \in FetchOutcomes, p \in PythPrices, m \in Moves : GetPrice(f, p, m)
    \/ Tick

\* ------------------------------------------------------------------ claims

\* A step that is a call of sendSOL (its synchronous part).
SendSOLCallStep == nCalls' = nCalls + 1 /\ callOp' = "sendSOL"

\* C1: with a per-transaction limit set, a sendSOL call whose amount is above
\* the limit ends with a policy error, is never suspended at a network await,
\* and has made no network request and no submission.
C1_OverLimitNoNetwork ==
    (callOp = "sendSOL" /\ maxSpendPerTx > 0 /\ callAmount > maxSpendPerTx)
        => /\ callResult = "policy_error"
           /\ wpc = "idle"
           /\ callNet = 0
           /\ ~callSubmitted

C1_Witness ==
    /\ callOp = "sendSOL"
    /\ maxSpendPerTx > 0
    /\ callAmount > maxSpendPerTx
    /\ callResult = "policy_error"

\* C2: a sendSOL call that is rejected by a policy check leaves the history,
\* the ledger in memory and the ledger file exactly as they were.
C2_RejectionChangesNothing ==
    [][(SendSOLCallStep /\ callResult' = "policy_error")
          => /\ txHistory' = txHistory
             /\ spendLedger' = spendLedger
             /\ ledgerFile' = ledgerFile]_vars

C2_Witness ==
    /\ callOp = "sendSOL"
    /\ callResult = "policy_error"
    /\ txHistory # <<>>
    /\ spendLedger[today] > 0
    /\ ledgerFile.exists

RestartStep == wpc = "idle" /\ txHistory # <<>> /\ txHistory' = <<>>

C5_EverySubmissionChecked == callSubmitted => callChecked

\* A step in which a sendSOL call that passed the policy checks ends.
SendSOLEndStep ==
    /\ callOp' = "sendSOL"
    /\ callChecked'
    /\ wpc' = "idle"
    /\ (nCalls' # nCalls \/ wpc # "idle")

ConfirmedOutcome ==
    /\ txHistory' = Append(txHistory, Record("SOL_TRANSFER", callAmount', "confirmed"))
    /\ spendLedger' = [spendLedger EXCEPT ![today] = @ + callAmount']
    /\ ledgerFile'.exists /\ ledgerFile'.map = spendLedger'

FailedOutcome ==
    /\ txHistory' = Append(txHistory, Record("SOL_TRANSFER", callAmount', "failed"))
    /\ spendLedger' = spendLedger
    /\ ledgerFile' = ledgerFile

\* C6: every sendSOL call that passed the policy checks ends either confirmed,
\* with exactly one confirmed record appended and today's ledger entry grown
\* by the amount and saved, or with an error, with exactly one failed record
\* appended and the ledger untouched; until it ends nothing is appended.
C6_OneRecordPerCall ==
    [][/\ SendSOLEndStep
            => /\ callResult' \in {"ok", "error"}
               /\ callResult' = "ok" => ConfirmedOutcome
               /\ callResult' = "error" => FailedOutcome
       /\ (callOp' = "sendSOL" /\ wpc' # "idle")
            => (txHistory' = txHistory /\ spendLedger' = spendLedger)]_vars

\* sendSOL calls that reached the try block: the two outcomes of C6 hold for
\* them, and nothing is appended while the call is suspended.
SendSOLTryBlockOutcome ==
    [][/\ (SendSOLEndStep /\ wpc # "idle")
            => /\ callResult' \in {"ok", "error"}
               /\ callResult' = "ok" => ConfirmedOutcome
               /\ callResult' = "error" => FailedOutcome
       /\ (callOp' = "sendSOL" /\ wpc' # "idle")
            => (txHistory' = txHistory /\ spendLedger' = spendLedger)]_vars

\* C7: once stopped, always stopped; and start() on a stopped loop throws and
\* changes neither the state nor the timer.
C7_StoppedIsTerminal ==
    [][/\ state = "stopped" => state' = "stopped"
       /\ (state = "stopped" /\ ~startThrew /\ startThrew')
            => UNCHANGED <<state, timerArmed, strayTimers>>]_vars

\* C8: a loop with maxCycles = k (and a consumer for its error events) that
\* has stopped by itself, with no cycle in flight, has completed exactly k
\* cycles (cycles that ran to cycle_end or to the error event).
C8_StopsAfterExactlyK ==
    (maxCycles > 0 /\ hasErrorListener /\ state = "stopped" /\ ~stopCalled
        /\ InFlight = 0)
        => completed = maxCycles

\* C9: when the cycle that was in flight during stop() settles, the state is
\* stopped and no timer is armed.
C9_StopHonouredAtBoundary ==
    [][(stopCalled /\ state = "stopped" /\ InFlight > 0 /\ InFlight' < InFlight)
          => (state' = "stopped" /\ ~timerArmed' /\ strayTimers' = 0)]_vars

\* C10: at most one cycle is in progress at any time.
C10_CyclesSequential == InFlight <= 1

\* C11: pause() leaves the loop paused with no timer armed, whatever the
\* state was; and until resume(), start() or stop() is called the state stays
\* paused, no timer is armed and no new cycle starts, whatever the cycle that
\* was in flight does when it settles.
C11_PauseHolds ==
    /\ [](pausedBy = "pause" => (state = "paused" /\ ~timerArmed))
    /\ [][(pausedBy = "pause" /\ pausedBy' = "pause")
             => cycleCount' = cycleCount]_vars

\* The cycle that finds the balance below the floor: it leaves the loop
\* paused, goes on to no observe, think or act, emits no cycle_end, counts as
\* no completed cycle and arms no timer.
LowBalanceCycleEffect ==
    [][lastStep' = Step("balance", "low")
          => /\ state' = "paused"
             /\ inflight' = Leave("balance")
             /\ completed' = completed
             /\ \A i \in 1..Len(lastEvents') : lastEvents'[i].type # "cycle_end"
             /\ timerArmed' = timerArmed
             /\ strayTimers' = strayTimers]_vars

\* C12: a cycle that finds the balance below the configured floor pauses the
\* loop without observe, think or act, without cycle_end and without arming a
\* timer; and the loop then stays paused until resume() (or start() or
\* stop()) is called.
C12_LowBalancePauses ==
    /\ LowBalanceCycleEffect
    /\ [](pausedBy = "balance" => state = "paused")

\* C13: a cycle in which the balance query, observe, think or act throws ends
\* with an error event, the state idle and the next cycle scheduled (or, the
\* cycle budget used up, with the loop stopped); and the loop becomes stopped
\* only by stop() or with the cycle budget used up.
C13_ErrorsDoNotEndLoop ==
    [][/\ (lastStep'.outcome = "throw" /\ lastStep'.op # "start")
            => /\ \E i \in 1..Len(lastEvents') : lastEvents'[i].type = "error"
               /\ state' \in {"idle", "stopped"}
               /\ state' = "idle" => timerArmed'
               /\ state' = "stopped" => MaxCyclesReached(cycleCount')
       /\ (state # "stopped" /\ state' = "stopped")
            => (lastStep'.op = "stop" \/ MaxCyclesReached(cycleCount'))]_vars

\* What a resume() call leaves alone when it does nothing.
ResumeDidNothing ==
    /\ UNCHANGED <<state, timerArmed, strayTimers, cycleCount, inflight>>
    /\ lastEvents' = <<>>
    /\ lastLog' = <<>>

C15_BalanceAtMostThreeReads ==
    callOp = "getSOLBalance"
        => /\ callNet <= 3
           /\ wpc = "bal_read" => callNet < 3
           /\ callResult = "ok" => wpc = "idle"
           /\ callResult = "error" => (wpc = "idle" /\ callNet = 3)

C15_Witness ==
    /\ callOp = "getSOLBalance"
    /\ callResult = "error"
    /\ callNet = 3

\* C16: a sendSOL or signAndSend call hands its transaction to the network at
\* most once; from the submission on the call only goes forward to the
\* confirmation or ends, with the failure reported when there was one.
C16_SubmitAtMostOnce ==
    /\ [](callOp \in {"sendSOL", "signAndSend"} => callSubmits <= 1)
    /\ [][(wpc \in {"sol_send", "sol_confirm", "custom_send"})
            => (\/ UNCHANGED <<wpc, callSubmits, callResult>>
                \/ /\ wpc = "sol_send"
                   /\ wpc' = "sol_confirm"
                   /\ callSubmits' = 1
                   /\ callResult' = "pending"
                \/ /\ wpc' = "idle"
                   /\ callResult' \in {"ok", "error"}
                   /\ callSubmits' = 1)]_vars

C16_Witness ==
    /\ callOp = "sendSOL"
    /\ callSubmits = 1
    /\ callResult = "error"
    /\ wpc = "idle"

\* A step of the second wallet instance; a step of the first.
PeerStep == peerCalls' # peerCalls \/ peerLive' # peerLive

WalletStep == nCalls' # nCalls \/ wpc' # wpc \/ txHistory' # txHistory

\* C17: for two wallets with different agentIds, each one's todaySpent is the
\* sum of its own transfers confirmed that day, a step of one leaves the
\* other's ledger and ledger file as they were, and a sendSOL call is
\* rejected by the daily cap exactly when the caller's own confirmed
\* transfers plus the amount exceed it.
C17_AgentsIsolated ==
    /\ [](peerId # WalletId
            => /\ GetTodaySpentFromLedger = confirmedSum[today]
               /\ peerLedger[today] = peerConfirmed[today])
    /\ [][peerId # WalletId
            => /\ PeerStep => UNCHANGED <<spendLedger, ledgerFile>>
               /\ WalletStep => UNCHANGED <<peerLedger, otherFile>>
               /\ (SendSOLCallStep /\ ~PerTxExceeded(callAmount'))
                    => ((callResult' = "policy_error")
                          <=> (/\ maxDailySpend > 0
                               /\ confirmedSum[today] + callAmount'
                                     > maxDailySpend))]_vars

C17_Witness ==
    /\ peerId # WalletId
    /\ spendLedger[today] > 0
    /\ peerLedger[today] > 0
    /\ spendLedger[today] # peerLedger[today]
    /\ ledgerFile.exists
    /\ otherFile.exists
    /\ ledgerFile.map # otherFile.map

\* C18: the entry of a day never decreases, in the memory of either wallet
\* instance or in a ledger file, also when both instances are of one agentId.
C18_LedgerEntryMonotone ==
    [][\A d \in Days :
          /\ spendLedger'[d] >= spendLedger[d]
          /\ peerLedger'[d] >= peerLedger[d]
          /\ ledgerFile'.map[d] >= ledgerFile.map[d]
          /\ otherFile'.map[d] >= otherFile.map[d]]_vars

\* C19: whenever the listeners of an event run, the audit line of that event
\* has already been handed to the event log.
C19_LoggedBeforeEmitted ==
    \A i \in 1..Len(lastEvents) : lastEvents[i].logged

\* What a handler did, apart from what reached the audit file.
ApartFromLog(l) == [l EXCEPT !.log = <<>>, !.fs = TRUE]

\* A handler does the same with the audit file unwritable as writable, and
\* logEvent throws in neither case.
SameEitherWay(good, bad) ==
    /\ ApartFromLog(good) = ApartFromLog(bad)
    /\ ~good.threw
    /\ ~bad.threw

\* C20: in every state, each handler leaves the same state and timers and
\* emits the same events whether its audit-log writes succeed or fail, and
\* the failure is not thrown; an error event comes only from a cycle that
\* threw; and the cycle count grows by one with each cycle started and with
\* nothing else.
C20_LogFailureSwallowed ==
    /\ [](/\ SameEitherWay(StartOutcome(TRUE), StartOutcome(FALSE))
          /\ SameEitherWay(PauseOutcome(TRUE), PauseOutcome(FALSE))
          /\ SameEitherWay(ResumeOutcome(TRUE), ResumeOutcome(FALSE))
          /\ SameEitherWay(StopOutcome(TRUE), StopOutcome(FALSE))
          /\ SameEitherWay(CycleStartOutcome(timerArmed, strayTimers, TRUE),
                           CycleStartOutcome(timerArmed, strayTimers, FALSE))
          /\ SameEitherWay(LowBalanceOutcome(TRUE), LowBalanceOutcome(FALSE))
          /\ SameEitherWay(ActionOutcome(TRUE), ActionOutcome(FALSE))
          /\ SameEitherWay(CycleEndOutcome(TRUE), CycleEndOutcome(FALSE))
          /\ SameEitherWay(CycleErrorOutcome(TRUE), CycleErrorOutcome(FALSE))
          /\ \A i \in 1..Len(lastEvents) :
                lastEvents[i].type = "error" => lastStep.outcome = "throw")
    /\ [][cycleCount' =
             IF lastStep' = Step("timer", "ok") THEN cycleCount + 1
             ELSE cycleCount]_vars

C20_Witness ==
    /\ lastStep = Step("think", "null")
    /\ lastEvents # <<>>
    /\ lastEvents[1].type = "cycle_end"
    /\ lastLog = <<>>
    /\ state = "idle"
    /\ timerArmed

\* A call on a KeyManager or on a registry has just returned.
KeyStep(op) == keyOps' = keyOps + 1 /\ lastKey'.op = op

C22_WrongSecretOrAlteredFails ==
    (/\ lastKey.op = "load"
     /\ lastKey.hadKey
     /\ stored[lastKey.id].live
     /\ \/ kmSecret[lastKey.km] # stored[lastKey.id].secret
        \/ keyFile[lastKey.id] # stored[lastKey.id].blob)
    => lastKey.status = "integrity_error"

\* C23: getOrCreate for an agentId whose key file exists and does not load
\* throws the load error, generates no keypair, and leaves the key file, the
\* metadata file and the registry as they were.
C23_UnloadableNotAbsent ==
    [][(/\ KeyStep("getOrCreate")
        /\ ~Has(wallets[lastKey'.km], lastKey'.id)
        /\ keyFile[lastKey'.id].exists
        /\ LoadKey(kmSecret[lastKey'.km], keyFile[lastKey'.id]).status # "ok")
       => (/\ lastKey'.status
                = LoadKey(kmSecret[lastKey'.km], keyFile[lastKey'.id]).status
           /\ nextSeed' = nextSeed
           /\ nextInst' = nextInst
           /\ keyFile' = keyFile
           /\ metaFile' = metaFile
           /\ wallets' = wallets)]_vars

C23_Witness ==
    /\ lastKey.op = "getOrCreate"
    /\ lastKey.status = "integrity_error"
    /\ lastKey.hadKey
    /\ keyFile[lastKey.id].exists
    /\ ~Has(wallets[lastKey.km], lastKey.id)

\* C24: deleteKey never throws; after it neither file of the agentId exists,
\* hasKey is false and loadKey fails with not-found, the other agentIds' files
\* are as they were, and deleting again changes nothing.
C24_DeleteTotalIdempotent ==
    [][KeyStep("delete")
       => LET a == lastKey'.id
              after == [key |-> keyFile', meta |-> metaFile']
          IN  /\ lastKey'.status = "ok"
              /\ ~keyFile'[a].exists
              /\ ~metaFile'[a].exists
              /\ ~HasKey(keyFile', a)
              /\ LoadKey(kmSecret[lastKey'.km], keyFile'[a]).status = "not_found"
              /\ \A b \in AgentIds \ {a} :
                     keyFile'[b] = keyFile[b] /\ metaFile'[b] = metaFile[b]
              /\ DeleteKey(after, a) = after]_vars

C24_Witness ==
    /\ lastKey.op = "delete"
    /\ lastKey.status = "ok"
    /\ lastKey.hadKey # lastKey.hadMeta
    /\ ~keyFile[lastKey.id].exists
    /\ ~metaFile[lastKey.id].exists

\* C25: of the getOrCreate calls made for one agentId since the last
\* deleteKey of it, on whichever registry, every one that returns a wallet
\* returns one with the public key of the first, and none rewrites the key
\* file or the metadata file of a stored credential.
C25_SameIdentityNoRewrite ==
    [][(KeyStep("getOrCreate") /\ lastKey'.status = "ok")
       => LET a == lastKey'.id
          IN  /\ firstWallet[a] # NoKeypair.publicKey
                    => lastKey'.keypair.publicKey = firstWallet[a]
              /\ stored[a].live
                    => keyFile'[a] = keyFile[a] /\ metaFile'[a] = metaFile[a]]_vars

\* The entries of a registry's map have distinct agentIds.
OnePerId(entries) ==
    \A i, j \in 1..Len(entries) :
        entries[i].agentId = entries[j].agentId => i = j

C27_HistoryAppendOnly ==
    [][Restart \/ (/\ Len(txHistory') >= Len(txHistory)
                   /\ \A i \in 1..Len(txHistory) :
                          txHistory'[i] = txHistory[i])]_vars

\* C28: JupiterAdapter buy and sell never raise; a failure of the quote, of
\* the swap request, of the decoding or of signAndSend gives null, and with
\* null the counters are what they were before the call.
C28_JupiterNeverRaises ==
    dex.adapter = "jupiter"
    => (/\ dex.result # "raised"
        /\ dex.failure # "none" => dex.result = "null"
        /\ dex.result = "null" => StatsNow = dex.before)

C28_Witness ==
    /\ dex.adapter = "jupiter"
    /\ dex.failure = "sign"
    /\ dex.result = "null"
    /\ StatsNow = dex.before
    /\ dex.before.tradeCount > 0

\* C29: for either adapter, when buy or sell returns null getStats() is what
\* it was before the call, and it differs from that only after a call that
\* returned a signature.
C29_NullMeansNoTrade ==
    /\ dex.result = "null" => StatsNow = dex.before
    /\ StatsNow # dex.before => dex.result = "sig"

\* C30: SimulatedDex.buy never raises; with insufficient balance it returns
\* null and makes no transfer, and when the balance read or the transfer
\* fails it returns null.
C30_SimBuyNeverRaises ==
    (dex.adapter = "simulated" /\ dex.op = "buy")
    => (/\ dex.result # "raised"
        /\ dex.failure # "none" => dex.result = "null"
        /\ dex.failure = "insufficient"
               => callOp = "getSOLBalance" /\ nCalls = dex.mark + 1)

\* A ledger file whose bytes are not a ledger.
CorruptFile(file) == file.exists /\ file.form # "ledger"

\* A step that constructs a new wallet over the ledger file as it is.
ConstructStep ==
    /\ wpc = "idle"
    /\ wpc' = "idle"
    /\ nCalls' = nCalls
    /\ today' = today
    /\ ledgerFile' = ledgerFile

\* A step in which a transfer is confirmed.
ConfirmStep == wpc = "sol_confirm" /\ wpc' = "idle" /\ callResult' = "ok"

\* C31: a wallet constructed over a corrupt or unreadable ledger file has an
\* empty ledger (nothing spent on any day), and the next transfer that is
\* confirmed leaves a well-formed ledger file whose only entry is that
\* transfer's amount for today.
C31_CorruptLedgerIsEmpty ==
    /\ [][(ConstructStep /\ CorruptFile(ledgerFile))
            => \A d \in Days : spendLedger'[d] = 0]_vars
    /\ [][(ConfirmStep /\ CorruptFile(ledgerFile) /\ spendLedger = EmptyLedger)
            => ledgerFile' = [exists |-> TRUE, form |-> "ledger",
                              map |-> [EmptyLedger EXCEPT ![today] = callAmount]]
         ]_vars

\* The events of one type that the last handler emitted.
RECURSIVE EmittedIn(_, _)
EmittedIn(events, type) ==
    IF events = <<>> THEN 0
    ELSE (IF Head(events).type = type THEN 1 ELSE 0)
         + EmittedIn(Tail(events), type)

\* The loop has been started.
Started == lastStep # Step("none", "none") /\ ~startThrew

\* C32: a loop with a finite cycle budget k and no balance floor that is
\* started once and never paused reaches stopped with cycleCount = k, when
\* its timers fire and its awaits settle (by returning or by throwing); the
\* stopped event is emitted once, by the step that stops the loop, and never
\* again.
C32_BudgetedLoopStops ==
    /\ Started ~> (state = "stopped" /\ cycleCount = maxCycles)
    /\ [][lastEvents' # lastEvents
            => /\ EmittedIn(lastEvents', "stopped") <= 1
               /\ state = "stopped" => EmittedIn(lastEvents', "stopped") = 0
         ]_vars

\* C33: with a finite cycle budget the number of cycles started never
\* exceeds it, whatever the sequence of start, pause, resume, stop and timer
\* firings; and every step adds to cycleCount exactly the number of
\* cycle_start events it emits (both start at 0).
C33_CycleCountWithinBudget ==
    /\ [](maxCycles # 0 => (0 <= cycleCount /\ cycleCount <= maxCycles))
    /\ [][cycleCount' = cycleCount + EmittedIn(lastEvents', "cycle_start")]_vars

\* C34: whoever subscribes to the loop's events, and also when nobody
\* subscribes to 'error', a cycle in which observe, think or act throws ends
\* with the state idle and a timer armed for the next cycle (or, the cycle
\* budget used up, with the loop stopped); and the loop is never in thinking
\* or acting with no timer pending and no cycle in flight.
C34_ProgressWithoutConsumers ==
    /\ [][(lastStep'.outcome = "throw"
              /\ lastStep'.op \in {"observe", "think", "act"})
            => \/ state' = "idle" /\ timerArmed'
               \/ state' = "stopped" /\ MaxCyclesReached(cycleCount')]_vars
    /\ [](state \in {"thinking", "acting"}
            => (timerArmed \/ strayTimers > 0 \/ InFlight > 0))

\* The operations that submit to the network.
SubmitOps == {"sendSOL", "sendSPL", "requestAirdrop", "signAndSend"}

\* A step in which a call that has made a network request ends.
SubmissionEnds ==
    /\ wpc # "idle"
    /\ wpc' = "idle"
    /\ callOp' \in SubmitOps
    /\ callNet' > 0
    /\ callResult' \in {"ok", "error"}

\* C35: every sendSOL, sendSPL, requestAirdrop or signAndSend call that
\* reached the network appends exactly one record, when it ends: confirmed
\* when the call succeeded, failed when it did not; nothing is appended
\* while a call is in flight; and no record in the history is pending.
C35_OneRecordPerSubmission ==
    /\ [][SubmissionEnds
            => /\ Len(txHistory') = Len(txHistory) + 1
               /\ SubSeq(txHistory', 1, Len(txHistory)) = txHistory
               /\ txHistory'[Len(txHistory')].status =
                      (IF callResult' = "ok" THEN "confirmed" ELSE "failed")
         ]_vars
    /\ [][wpc' # "idle" => txHistory' = txHistory]_vars
    /\ [](\A i \in 1..Len(txHistory) : txHistory[i].status # "pending")


\* The today-entry that a wallet constructed now would read from the file.
PersistedToday == LoadSpendLedger(ledgerFile)[today]

C37_KeyFilesConsistent ==
    \A a \in AgentIds :
        HasKey(keyFile, a) <=> (/\ a \in ListKeys(metaFile)
                                /\ GetPublicKey(metaFile, a).status = "ok")

\* act(BUY) returns in this step.
BuyReturns == act.pc = "dex" /\ act'.pc = "idle" /\ act.type = "BUY"

\* C38: the recorded position follows the trades that occurred: after a BUY
\* whose adapter call returned null the position stays none and entryPrice
\* stays 0, and the position becomes long only after a buy that returned a
\* signature.
C38_PositionFollowsTrades ==
    /\ [][BuyReturns /\ act'.result = "null"
            => (position' = "none" /\ entryPrice' = 0)]_vars
    /\ [][position = "none" /\ position' = "long"
            => (BuyReturns /\ act'.result = "sig")]_vars

\* The last getPrice call was made with the Pyth source selected and its
\* fetch failed or carried no valid price.
PythFailed == quote.source = "pyth" /\ quote.fetch \in {"fetch_failed", "invalid"}

\* C39: with the Pyth source selected, when a Pyth fetch fails or returns no
\* valid price, getPrice does not raise, returns a price above 0, and the
\* price is the mock oracle's, not a Pyth price fetched earlier.
C39_PythFailureFallsBackToMock ==
    PythFailed => /\ quote.status = "ok"
                  /\ quote.price > 0
                  /\ quote.from = "mock"

\* C40: with a staleness limit m > 0, every price getPrice returns was
\* obtained from its source at most m before the call returns, older data
\* making getPrice raise; with m = 0 getPrice never raises for staleness.
C40_NeverOlderThanLimit ==
    /\ (maxStale > 0 /\ quote.status = "ok")
          => quote.at - quote.obtained <= maxStale
    /\ maxStale = 0 => quote.status # "raised"
\* ------------------------------------------------------------ specifications

\* One wallet under every sequence of calls, restarts and midnights.
InitWallet ==
    /\ WalletInit /\ AgentAtRest /\ PeerAtRest
    /\ KeysAtRest /\ HistAtRest /\ DexAtRest
    /\ DiskAtRest /\ TradeAtRest /\ OracleAtRest

SpecWallet == InitWallet /\ [][WalletNext]_vars

\* One decision loop under every interleaving of lifecycle calls, timers and
\* settling awaits.
InitAgent ==
    /\ AgentInit /\ WalletAtRest /\ PeerAtRest
    /\ KeysAtRest /\ HistAtRest /\ DexAtRest
    /\ DiskAtRest /\ TradeAtRest /\ OracleAtRest

SpecAgent == InitAgent /\ [][AgentNext]_vars

\* Two wallet instances, for the same agentId or for two, under every
\* interleaving of their transfers and of restarts, within one day.
InitPeers ==
    /\ WalletInit /\ AgentAtRest /\ PeerInit
    /\ KeysAtRest /\ HistAtRest /\ DexAtRest
    /\ DiskAtRest /\ TradeAtRest /\ OracleAtRest

SpecPeers == InitPeers /\ [][PeersNext]_vars

\* Two KeyManagers over one key directory, under every sequence of store,
\* load and delete calls and of changes made to the files by others.
InitKeyStore ==
    /\ WalletAtRest /\ AgentAtRest /\ PeerAtRest /\ KeysInit /\ HistAtRest /\ DexAtRest
    /\ DiskAtRest /\ TradeAtRest /\ OracleAtRest

SpecKeyStore == InitKeyStore /\ [][KeyStoreNext]_vars

\* Two registries over one key directory, under every sequence of their
\* calls, of deleteKey and of altered key files.
InitRegistry ==
    /\ WalletAtRest /\ AgentAtRest /\ PeerAtRest /\ KeysInit /\ HistAtRest /\ DexAtRest
    /\ DiskAtRest /\ TradeAtRest /\ OracleAtRest

SpecRegistry == InitRegistry /\ [][RegistryNext]_vars

\* One wallet and a caller that holds what getTransactionHistory returned.
InitHistory ==
    /\ WalletInit /\ AgentAtRest /\ PeerAtRest /\ KeysAtRest /\ HistAtRest /\ DexAtRest
    /\ DiskAtRest /\ TradeAtRest /\ OracleAtRest

SpecHistory == InitHistory /\ [][HistoryNext]_vars

\* One wallet under the calls of a JupiterAdapter and of a SimulatedDex.
InitDex ==
    /\ WalletInit /\ AgentAtRest /\ PeerAtRest /\ KeysAtRest /\ HistAtRest /\ DexInit
    /\ DiskAtRest /\ TradeAtRest /\ OracleAtRest

SpecDex == InitDex /\ [][DexNext]_vars

\* One wallet whose ledger file may be left corrupt between its calls.
InitLedgerFile ==
    /\ WalletInit /\ AgentAtRest /\ PeerAtRest /\ KeysAtRest /\ HistAtRest
    /\ DexAtRest /\ DiskAtRest /\ TradeAtRest /\ OracleAtRest

SpecLedgerFile == InitLedgerFile /\ [][LedgerFileNext]_vars

\* One wallet in a process that may be killed at any await, on a disk that
\* may refuse writes.
InitCrash ==
    /\ WalletInit /\ AgentAtRest /\ PeerAtRest /\ KeysAtRest /\ HistAtRest
    /\ DexAtRest /\ DiskAtRest /\ TradeAtRest /\ OracleAtRest

SpecCrash == InitCrash /\ [][CrashNext]_vars

\* A loop with a finite cycle budget and no balance floor that is started
\* once and then left alone; every pending timer fires (setTimeout) and
\* every await settles.
InitLoopFair ==
    /\ AgentInit /\ maxCycles > 0 /\ ~minBalanceSet
    /\ WalletAtRest /\ PeerAtRest /\ KeysAtRest /\ HistAtRest
    /\ DexAtRest /\ DiskAtRest /\ TradeAtRest /\ OracleAtRest

SpecLoopFair ==
    /\ InitLoopFair
    /\ [][LoopFairNext]_vars
    /\ WF_vars(LoopProgress)

\* Two KeyManagers over one key directory, in processes that may be killed
\* between the two file operations of a store or of a delete.
InitKeyFiles ==
    /\ WalletAtRest /\ AgentAtRest /\ PeerAtRest /\ KeysInit /\ HistAtRest
    /\ DexAtRest /\ DiskAtRest /\ TradeAtRest /\ OracleAtRest

SpecKeyFiles == InitKeyFiles /\ [][KeyFilesNext]_vars

\* A TradingAgent acting through the adapter createDex gave it.
InitTrading ==
    /\ WalletInit /\ AgentAtRest /\ PeerAtRest /\ KeysAtRest /\ HistAtRest
    /\ DexInit /\ DiskAtRest /\ TradeInit /\ OracleAtRest

SpecTrading == InitTrading /\ [][TradingNext]_vars

\* The oracle createPriceOracle returns, asked for prices as time passes.
InitOracle ==
    /\ WalletAtRest /\ AgentAtRest /\ PeerAtRest /\ KeysAtRest /\ HistAtRest
    /\ DexAtRest /\ DiskAtRest /\ TradeAtRest /\ OracleInit

SpecOracle == InitOracle /\ [][OracleNext]_vars

====
